---- MODULE Spec2Model ----
(***************************************************************************)
(* Offline-first synchronisation layer of gamefaqs-reader: the tables     *)
(* sync_queue and downloaded_guides of offlineCache with its lazily opened *)
(* connection (getDb), DownloadManager, SyncManager (queueChange, syncAll, *)
(* processQueueItem, clearQueue), the connectivity-aware mutation hooks    *)
(* (useCreateBookmark, useDeleteBookmark, useCreateNote, useUpdateNote,    *)
(* useDeleteNote, useUpdatePosition), the guide reader query (useGuide)    *)
(* and the sync button of SettingsScreen (handleSyncNow).                  *)
(***************************************************************************)
EXTENDS Integers, Sequences, FiniteSets, TLC

\* ---------------------------------------------------------------- bounds
\* rows ever inserted into sync_queue
MaxEnq == 3
\* largest value Date.now() takes
MaxClock == 3
\* remote calls that fail while a queued change is replayed
MaxFail == 1
\* rows the mutation hooks insert in the write-path specification
MaxWrites == 1
\* rows ever inserted into sync_queue in the fair specification
MaxLiveEnq == 2
\* addToSyncQueue calls in flight at the same time
MaxAdds == 2
\* rows the mutation hooks insert in the specification of the offline creates
MaxCreates == 2

VARIABLES
  queue,      \* table sync_queue: a set of rows
  seq,        \* sqlite_sequence of sync_queue: the last AUTOINCREMENT id
  clock,      \* the last value Date.now() returned
  guides,     \* table downloaded_guides: a set of rows
  isOnline,   \* NetworkProvider: the connectivity signal
  pc,         \* per syncAll invocation slot: where the invocation stands
  snapshot,   \* per slot: the array getSyncQueue returned to syncAll
  idx,        \* per slot: position of the for..of loop in the snapshot
  result,     \* per slot: the SyncResult under construction / returned
  attempts,   \* per slot: the entries the loop has attempted, with outcome
  disturbed,  \* per slot: queue written by someone else since the drain
  replayed,   \* the calls the remote API received from processQueueItem,
              \* with their outcome and the queue row they were made for
  fails,      \* number of rejections so far: replayed calls that failed
              \* and removals the store rejected
  origin,     \* queue id -> the mutation (hook, variables) that enqueued it
  mut,        \* how the mutationFn call completed by the last step settled
  db,         \* offlineCache: the module-level connection (0 is null)
  schema,     \* the database file holds the tables of initializeSchema
  adds,       \* the offlineCache calls made concurrently, each with the
              \* await it stands at
  last,       \* the operation the last step completed or moved on (an
              \* offlineCache call, a useGuide query, a downloadGuide call),
              \* with its argument and the value it resolved to
  screen      \* SettingsScreen: its state isSyncing and pendingSyncCount,
              \* and the handleSyncNow calls with the await each stands at

vars == <<queue, seq, clock, guides, isOnline, pc, snapshot, idx, result,
          attempts, disturbed, replayed, fails, origin, mut, db, schema,
          adds, last, screen>>

\* ------------------------------------------------------- JavaScript values
Undef == "undefined"
Null == "null"

\* property read: a missing property reads as undefined
Get(o, k) == IF k \in DOMAIN o THEN o[k] ELSE Undef

\* a spread that keeps only the properties of b
Spread_OnlyLast(a, b) == b

\* object spread { ...a, ...b }: own properties of b override those of a
Spread(a, b) ==
  [k \in (DOMAIN a) \cup (DOMAIN b) |-> IF k \in DOMAIN b THEN b[k] ELSE a[k]]

\* the number NaN, which JSON has no text for
NaN == "NaN"

\* a serializer that leaves out the properties holding null as well
JSONStringify_DropsNull(o) ==
  {<<k, o[k]>> : k \in {j \in DOMAIN o : o[j] \notin {Undef, Null}}}

\* JSON.stringify of a flat object: the text lists one member <<key, value>>
\* per own property; properties holding undefined are left out and NaN is
\* written as null
JSONStringify(o) ==
  {<<k, IF o[k] = NaN THEN Null ELSE o[k]>> :
     k \in {j \in DOMAIN o : o[j] # Undef}}

\* JSON.parse of such a text: an object with one property per member
JSONParse(t) ==
  [k \in {m[1] : m \in t} |-> (CHOOSE m \in t : m[1] = k)[2]]

\* ----------------------------------------------------- remote API endpoints
NoBody == {}

guidesApi_updatePosition(id, position) ==
  [op |-> "guidesApi.updatePosition", method |-> "PUT",
   path |-> <<"guides", id, "position">>,
   body |-> JSONStringify([position |-> position])]

bookmarksApi_create(guideId, data) ==
  [op |-> "bookmarksApi.create", method |-> "POST",
   path |-> <<"guides", guideId, "bookmarks">>,
   body |-> JSONStringify(data)]

bookmarksApi_delete(guideId, bookmarkId) ==
  [op |-> "bookmarksApi.delete", method |-> "DELETE",
   path |-> <<"guides", guideId, "bookmarks", bookmarkId>>,
   body |-> NoBody]

notesApi_create(guideId, data) ==
  [op |-> "notesApi.create", method |-> "POST",
   path |-> <<"guides", guideId, "notes">>,
   body |-> JSONStringify(data)]

notesApi_update(guideId, noteId, data) ==
  [op |-> "notesApi.update", method |-> "PUT",
   path |-> <<"guides", guideId, "notes", noteId>>,
   body |-> JSONStringify(data)]

notesApi_delete(guideId, noteId) ==
  [op |-> "notesApi.delete", method |-> "DELETE",
   path |-> <<"guides", guideId, "notes", noteId>>,
   body |-> NoBody]

\* ------------------------------------------------------------- dispatcher
NoCall == [op |-> "none"]

\* SyncManager.processQueueItem: what one call does with one queue item.
\*   outcome "call":  exactly the remote call `call` is awaited
\*   outcome "none":  the switch falls through without any call
\*   outcome "throw": Error(message) is thrown
Calls(call) == [outcome |-> "call", message |-> <<>>, call |-> call]

FallsThrough == [outcome |-> "none", message |-> <<>>, call |-> NoCall]

\* case 'position'
casePosition(action, payload) ==
  IF action = "update" THEN
    Calls(guidesApi_updatePosition(Get(payload, "guideId"),
                                   Get(payload, "position")))
  ELSE FallsThrough

\* case 'bookmark' with the delete branch passing the wrong id field
caseBookmark_WrongId(action, payload) ==
  IF action = "create" THEN
    Calls(bookmarksApi_create(Get(payload, "guideId"),
            [position |-> Get(payload, "position"),
             name |-> Get(payload, "name"),
             page_reference |-> Get(payload, "page_reference"),
             is_last_read |-> Get(payload, "is_last_read")]))
  ELSE IF action = "delete" THEN
    Calls(bookmarksApi_delete(Get(payload, "guideId"),
                              Get(payload, "noteId")))
  ELSE FallsThrough

\* case 'bookmark'
caseBookmark(action, payload) ==
  IF action = "create" THEN
    Calls(bookmarksApi_create(Get(payload, "guideId"),
            [position |-> Get(payload, "position"),
             name |-> Get(payload, "name"),
             page_reference |-> Get(payload, "page_reference"),
             is_last_read |-> Get(payload, "is_last_read")]))
  ELSE IF action = "delete" THEN
    Calls(bookmarksApi_delete(Get(payload, "guideId"),
                              Get(payload, "bookmarkId")))
  ELSE FallsThrough

\* case 'note'
caseNote(action, payload) ==
  IF action = "create" THEN
    Calls(notesApi_create(Get(payload, "guideId"),
            [position |-> Get(payload, "position"),
             content |-> Get(payload, "content")]))
  ELSE IF action = "update" THEN
    Calls(notesApi_update(Get(payload, "guideId"), Get(payload, "noteId"),
            [position |-> Get(payload, "position"),
             content |-> Get(payload, "content")]))
  ELSE IF action = "delete" THEN
    Calls(notesApi_delete(Get(payload, "guideId"), Get(payload, "noteId")))
  ELSE FallsThrough

processQueueItem(item) ==
  LET type == item.type
      action == item.action
      payload == item.payload
  IN
  IF type = "position" THEN casePosition(action, payload)
  ELSE IF type = "bookmark" THEN caseBookmark(action, payload)
  ELSE IF type = "note" THEN caseNote(action, payload)
  ELSE [outcome |-> "throw", message |-> <<"Unknown sync type: ", type>>,
        call |-> NoCall]

\* ------------------------------------------------------------ sync_queue
\* INSERT OR REPLACE keyed by (type, action): one row per kind of change
addToSyncQueue_Upsert(type, action, payload, now) ==
  /\ queue' = {r \in queue : ~(r.type = type /\ r.action = action)} \cup
                 {[id |-> seq + 1, type |-> type, action |-> action,
                   payload |-> JSONStringify(payload), created_at |-> now]}
  /\ seq' = seq + 1

\* the id computed by the caller from a count read before the insert, the
\* row written with INSERT OR REPLACE
addToSyncQueue_CountedId(type, action, payload, now) ==
  /\ queue' = {r \in queue : r.id # Cardinality(queue) + 1} \cup
                 {[id |-> Cardinality(queue) + 1, type |-> type,
                   action |-> action, payload |-> JSONStringify(payload),
                   created_at |-> now]}
  /\ seq' = seq + 1

\* id INTEGER PRIMARY KEY without AUTOINCREMENT: the new rowid is one more
\* than the largest rowid in the table
addToSyncQueue_Rowid(type, action, payload, now) ==
  /\ queue' = queue \cup
       {[id |-> IF queue = {} THEN 1
                ELSE (CHOOSE m \in {r.id : r \in queue} :
                        \A r \in queue : r.id <= m) + 1,
         type |-> type, action |-> action,
         payload |-> JSONStringify(payload), created_at |-> now]}
  /\ seq' = seq + 1

\* offlineCache.addToSyncQueue: INSERT INTO sync_queue (type, action,
\* payload, created_at) VALUES (?, ?, JSON.stringify(payload), Date.now());
\* the id is assigned by AUTOINCREMENT
addToSyncQueue(type, action, payload, now) ==
  /\ queue' = queue \cup {[id |-> seq + 1, type |-> type, action |-> action,
                           payload |-> JSONStringify(payload),
                           created_at |-> now]}
  /\ seq' = seq + 1

\* ORDER BY created_at DESC
OrderByCreatedAt_Desc(rows) ==
  {s \in [1..Cardinality(rows) -> rows] :
     \A i, j \in 1..Cardinality(rows) :
        i < j => /\ s[i] # s[j]
                 /\ s[i].created_at >= s[j].created_at}

\* a SELECT without ORDER BY: the rows in any order
OrderByCreatedAt_Unordered(rows) ==
  {s \in [1..Cardinality(rows) -> rows] :
     \A i, j \in 1..Cardinality(rows) : i < j => s[i] # s[j]}

\* the orders ORDER BY created_at ASC may return a set of rows in: rows with
\* equal created_at have no specified relative order
OrderByCreatedAt(rows) ==
  {s \in [1..Cardinality(rows) -> rows] :
     \A i, j \in 1..Cardinality(rows) :
        i < j => /\ s[i] # s[j]
                 /\ s[i].created_at <= s[j].created_at}

\* offlineCache.getSyncQueue: the arrays it may resolve to, payload parsed
getSyncQueue(rows) ==
  {[i \in 1..Len(s) |-> [s[i] EXCEPT !.payload = JSONParse(s[i].payload)]] :
     s \in OrderByCreatedAt(rows)}

\* removeSyncQueueItem with a WHERE clause that matches no row
removeSyncQueueItem_NoMatch(rows, id) == rows

\* DELETE FROM sync_queue WHERE id <= ?
removeSyncQueueItem_UpTo(rows, id) == {r \in rows : r.id > id}

\* offlineCache.removeSyncQueueItem: DELETE FROM sync_queue WHERE id = ?
removeSyncQueueItem(rows, id) == {r \in rows : r.id # id}

\* offlineCache.clearSyncQueue: DELETE FROM sync_queue
clearSyncQueue(rows) == {}

\* offlineCache.getSyncQueueCount: SELECT COUNT(*) FROM sync_queue
getSyncQueueCount(rows) == Cardinality(rows)

\* Date.now(): the clock never runs backwards and may stand still between
\* two reads
DateNow == {t \in clock..(clock + 1) : t <= MaxClock}

\* ------------------------------------------------------- downloaded_guides
\* the nullish coalescing operator x ?? d
Coalesce(x, d) == IF x \in {Undef, Null} THEN d ELSE x

\* the guides (type Guide) handed to saveGuide: two versions of g1, the
\* first without its optional fields, and one version of g2 and of g3
GuideInputs ==
  {[id |-> "g1", title |-> "A", content |-> "a v1", format |-> "txt",
    file_path |-> "/a.txt", created_at |-> "10", updated_at |-> "10"],
   [id |-> "g1", title |-> "A2", content |-> "a v2", format |-> "md",
    file_path |-> "/a.md", game_id |-> "game1", last_read_position |-> "5",
    metadata |-> "{}", created_at |-> "10", updated_at |-> "20"],
   [id |-> "g2", title |-> "B", content |-> "b", format |-> "html",
    file_path |-> "/b.html", game_id |-> Null, last_read_position |-> "7",
    created_at |-> "11", updated_at |-> "11"],
   [id |-> "g3", title |-> "C", content |-> "c", format |-> "txt",
    file_path |-> "/c.txt", metadata |-> "{}", created_at |-> "12",
    updated_at |-> "12"]}

GuideIds == {g.id : g \in GuideInputs}

\* the row saveGuide binds to the statement
guideRow(guide, now) ==
  [id |-> guide.id, title |-> guide.title, content |-> guide.content,
   format |-> guide.format, file_path |-> guide.file_path,
   game_id |-> Coalesce(Get(guide, "game_id"), Null),
   last_read_position |-> Coalesce(Get(guide, "last_read_position"), Null),
   metadata |-> Coalesce(Get(guide, "metadata"), Null),
   created_at |-> guide.created_at, updated_at |-> guide.updated_at,
   downloaded_at |-> now]

\* an upsert that keeps the old value of a column the new guide leaves null
saveGuide_Merge(rows, guide, now) ==
  LET new == guideRow(guide, now)
      old == {r \in rows : r.id = guide.id}
      merged(o) == [k \in DOMAIN new |->
                      IF k # "downloaded_at" /\ new[k] = Null THEN o[k]
                      ELSE new[k]]
  IN {r \in rows : r.id # guide.id} \cup
     (IF old = {} THEN {new} ELSE {merged(o) : o \in old})

\* offlineCache.saveGuide: INSERT OR REPLACE INTO downloaded_guides, id
\* being the primary key
saveGuide(rows, guide, now) ==
  {r \in rows : r.id # guide.id} \cup {guideRow(guide, now)}

\* offlineCache.getGuide: SELECT * ... WHERE id = ?; null without a row,
\* otherwise the row without downloaded_at
getGuide(rows, id) ==
  IF {r \in rows : r.id = id} = {} THEN <<>>
  ELSE LET row == CHOOSE r \in rows : r.id = id
       IN <<[k \in (DOMAIN row) \ {"downloaded_at"} |-> row[k]]>>

\* ORDER BY downloaded_at ASC
OrderByDownloadedAt_Asc(rows) ==
  {s \in [1..Cardinality(rows) -> rows] :
     \A i, j \in 1..Cardinality(rows) :
        i < j => /\ s[i] # s[j]
                 /\ s[i].downloaded_at <= s[j].downloaded_at}

\* the orders ORDER BY downloaded_at DESC may return the rows in
OrderByDownloadedAt(rows) ==
  {s \in [1..Cardinality(rows) -> rows] :
     \A i, j \in 1..Cardinality(rows) :
        i < j => /\ s[i] # s[j]
                 /\ s[i].downloaded_at >= s[j].downloaded_at}

\* offlineCache.getAllDownloadedGuides: the arrays it may resolve to
getAllDownloadedGuides(rows) == OrderByDownloadedAt(rows)

\* offlineCache.getDownloadedGuideIds: SELECT id, in any order
getDownloadedGuideIds(rows) ==
  {[i \in 1..Len(s) |-> s[i].id] :
     s \in {t \in [1..Cardinality(rows) -> rows] :
              \A i, j \in 1..Cardinality(rows) : i < j => t[i] # t[j]}}

\* a DELETE without its WHERE clause
deleteGuide_Unfiltered(rows, id) == {}

\* offlineCache.deleteGuide: DELETE FROM downloaded_guides WHERE id = ?
deleteGuide(rows, id) == {r \in rows : r.id # id}

\* offlineCache.deleteAllGuides: DELETE FROM downloaded_guides
deleteAllGuides(rows) == {}

\* offlineCache.isGuideDownloaded: COUNT(*) ... WHERE id = ? is above 0
isGuideDownloaded(rows, id) == Cardinality({r \in rows : r.id = id}) > 0

\* offlineCache.getDownloadedCount: SELECT COUNT(*) FROM downloaded_guides
getDownloadedCount(rows) == Cardinality(rows)

\* mut when the last step completed no mutationFn call
NoMutation ==
  [hook |-> "none", online |-> FALSE, status |-> "none", calls |-> <<>>,
   rejected |-> <<>>, thrown |-> <<>>, value |-> <<>>, queued |-> 0]

\* the slots of the concurrent offlineCache calls, and a slot not in use; op
\* is the operation called and opened tells whether the call ran
\* openDatabaseAsync
Adders == 1..MaxAdds

NoAdd ==
  [pc |-> "idle", op |-> "none", item |-> <<>>, conn |-> 0, id |-> 0,
   at |-> 0, opened |-> FALSE]

\* last when the last step completed no offlineCache call of its own
NoOperation == [op |-> "none", arg |-> <<>>, ret |-> <<>>]

\* --------------------------------------------------------------- SyncManager
Syncers == {1, 2}

\* SettingsScreen as mounted: useState(false), useState(null), and no
\* handleSyncNow call running
NoScreen ==
  [isSyncing |-> FALSE, pendingSyncCount |-> <<>>,
   handler |-> [s \in Syncers |-> "idle"]]

EmptyResult == [success |-> 0, failed |-> 0, errors |-> <<>>]

\* what a remote call may reject with: an Error, or a value that is none
Thrown == {[isError |-> TRUE, text |-> <<"API error">>],
           [isError |-> FALSE, text |-> <<"String error">>]}

\* a catch block that pushes the thrown value as it is
catchError_Raw(res, thrown) ==
  [res EXCEPT !.failed = @ + 1, !.errors = Append(@, thrown.text)]

\* the catch block of syncAll: failed++, errors.push(message or fallback)
catchError(res, thrown) ==
  [res EXCEPT !.failed = @ + 1,
              !.errors = Append(@, IF thrown.isError THEN thrown.text
                                   ELSE <<"Unknown error">>)]

\* every slot with a snapshot in hand sees the queue written by someone else
Disturb(except) ==
  [s \in Syncers |-> IF s # except /\ pc[s] # "idle" THEN TRUE
                     ELSE disturbed[s]]

\* the loop left at the first entry that throws (a catch around the loop)
Advance_FailFast(s) ==
  /\ idx' = [idx EXCEPT ![s] = @ + 1]
  /\ pc' = [pc EXCEPT ![s] = IF \/ idx[s] + 1 > Len(snapshot[s])
                                \/ pc[s] = "dispatch"
                             THEN "done" ELSE "dispatch"]

\* the for..of loop moves to the next item, or syncAll returns the result
Advance(s) ==
  /\ idx' = [idx EXCEPT ![s] = @ + 1]
  /\ pc' = [pc EXCEPT ![s] = IF idx[s] + 1 > Len(snapshot[s]) THEN "done"
                             ELSE "dispatch"]

\* SyncManager.queueChange(item)
queueChange(item, now) ==
  /\ addToSyncQueue(item.type, item.action, item.payload, now)
  /\ clock' = now
  /\ disturbed' = Disturb(0)

\* syncAll behind an in-flight guard: it starts only when no other
\* invocation is running
SyncStart_Guarded(s) ==
  /\ pc[s] \in {"idle", "done"}
  /\ \A t \in Syncers \ {s} : pc[t] \in {"idle", "done"}
  /\ \E snap \in getSyncQueue(queue) :
       /\ snapshot' = [snapshot EXCEPT ![s] = snap]
       /\ pc' = [pc EXCEPT ![s] = IF Len(snap) = 0 THEN "done"
                                  ELSE "dispatch"]
  /\ idx' = [idx EXCEPT ![s] = 1]
  /\ result' = [result EXCEPT ![s] = EmptyResult]
  /\ attempts' = [attempts EXCEPT ![s] = <<>>]
  /\ disturbed' = [disturbed EXCEPT ![s] = FALSE]
  /\ UNCHANGED <<queue, seq, clock, guides, isOnline, replayed, fails,
                 origin>>
  /\ mut' = NoMutation
  /\ UNCHANGED <<db, schema, adds>>
  /\ last' = NoOperation
  /\ UNCHANGED screen

\* syncAll up to the resolution of getSyncQueue
SyncStart(s) ==
  /\ pc[s] \in {"idle", "done"}
  /\ \E snap \in getSyncQueue(queue) :
       /\ snapshot' = [snapshot EXCEPT ![s] = snap]
       /\ pc' = [pc EXCEPT ![s] = IF Len(snap) = 0 THEN "done"
                                  ELSE "dispatch"]
  /\ idx' = [idx EXCEPT ![s] = 1]
  /\ result' = [result EXCEPT ![s] = EmptyResult]
  /\ attempts' = [attempts EXCEPT ![s] = <<>>]
  /\ disturbed' = [disturbed EXCEPT ![s] = FALSE]
  /\ UNCHANGED <<queue, seq, clock, guides, isOnline, replayed, fails,
                 origin>>
  /\ mut' = NoMutation
  /\ UNCHANGED <<db, schema, adds>>
  /\ last' = NoOperation
  /\ UNCHANGED screen

\* processQueueItem(item) awaited a remote call and it resolved
DispatchOk(s) ==
  /\ pc[s] = "dispatch"
  /\ LET item == snapshot[s][idx[s]]
         r == processQueueItem(item)
     IN /\ r.outcome = "call"
        /\ replayed' = Append(replayed,
                              [call |-> r.call, ok |-> TRUE, id |-> item.id,
                               at |-> item.created_at])
        /\ attempts' = [attempts EXCEPT ![s] =
                          Append(@, [id |-> item.id, threw |-> FALSE,
                                     thrown |-> <<>>])]
  /\ pc' = [pc EXCEPT ![s] = "remove"]
  /\ UNCHANGED <<queue, seq, clock, guides, isOnline, snapshot, idx, result,
                 disturbed, fails, origin>>
  /\ mut' = NoMutation
  /\ UNCHANGED <<db, schema, adds>>
  /\ last' = NoOperation
  /\ UNCHANGED screen

\* a catch block that also deletes the entry whose call rejected
DispatchFail_Drops(s) ==
  /\ pc[s] = "dispatch"
  /\ fails < MaxFail
  /\ LET item == snapshot[s][idx[s]]
         r == processQueueItem(item)
     IN /\ r.outcome = "call"
        /\ replayed' = Append(replayed,
                              [call |-> r.call, ok |-> FALSE, id |-> item.id,
                               at |-> item.created_at])
        /\ \E thrown \in Thrown :
             /\ attempts' = [attempts EXCEPT ![s] =
                               Append(@, [id |-> item.id, threw |-> TRUE,
                                          thrown |-> <<thrown>>])]
             /\ result' = [result EXCEPT ![s] = catchError(@, thrown)]
        /\ queue' = removeSyncQueueItem(queue, item.id)
  /\ fails' = fails + 1
  /\ Advance(s)
  /\ UNCHANGED <<seq, clock, guides, isOnline, snapshot, disturbed, origin>>
  /\ mut' = NoMutation
  /\ UNCHANGED <<db, schema, adds>>
  /\ last' = NoOperation
  /\ UNCHANGED screen

\* processQueueItem(item) awaited a remote call and it rejected
DispatchFail(s) ==
  /\ pc[s] = "dispatch"
  /\ fails < MaxFail
  /\ LET item == snapshot[s][idx[s]]
         r == processQueueItem(item)
     IN /\ r.outcome = "call"
        /\ replayed' = Append(replayed,
                              [call |-> r.call, ok |-> FALSE, id |-> item.id,
                               at |-> item.created_at])
        /\ \E thrown \in Thrown :
             /\ attempts' = [attempts EXCEPT ![s] =
                               Append(@, [id |-> item.id, threw |-> TRUE,
                                          thrown |-> <<thrown>>])]
             /\ result' = [result EXCEPT ![s] = catchError(@, thrown)]
  /\ fails' = fails + 1
  /\ Advance(s)
  /\ UNCHANGED <<queue, seq, clock, guides, isOnline, snapshot, disturbed,
                 origin>>
  /\ mut' = NoMutation
  /\ UNCHANGED <<db, schema, adds>>
  /\ last' = NoOperation
  /\ UNCHANGED screen

\* processQueueItem(item) returned without making a call
DispatchNone(s) ==
  /\ pc[s] = "dispatch"
  /\ LET item == snapshot[s][idx[s]]
         r == processQueueItem(item)
     IN /\ r.outcome = "none"
        /\ attempts' = [attempts EXCEPT ![s] =
                          Append(@, [id |-> item.id, threw |-> FALSE,
                                     thrown |-> <<>>])]
  /\ pc' = [pc EXCEPT ![s] = "remove"]
  /\ UNCHANGED <<queue, seq, clock, guides, isOnline, snapshot, idx, result,
                 disturbed, replayed, fails, origin>>
  /\ mut' = NoMutation
  /\ UNCHANGED <<db, schema, adds>>
  /\ last' = NoOperation
  /\ UNCHANGED screen

\* processQueueItem(item) threw before making a call
DispatchThrow(s) ==
  /\ pc[s] = "dispatch"
  /\ LET item == snapshot[s][idx[s]]
         r == processQueueItem(item)
     IN /\ r.outcome = "throw"
        /\ attempts' = [attempts EXCEPT ![s] =
                          Append(@, [id |-> item.id, threw |-> TRUE,
                                     thrown |-> <<[isError |-> TRUE,
                                                   text |-> r.message]>>])]
        /\ result' = [result EXCEPT ![s] =
                        catchError(@, [isError |-> TRUE, text |-> r.message])]
  /\ Advance(s)
  /\ UNCHANGED <<queue, seq, clock, guides, isOnline, snapshot, disturbed,
                 replayed, fails, origin>>
  /\ mut' = NoMutation
  /\ UNCHANGED <<db, schema, adds>>
  /\ last' = NoOperation
  /\ UNCHANGED screen

\* await offlineCache.removeSyncQueueItem(item.id); result.success++
Remove(s) ==
  /\ pc[s] = "remove"
  /\ queue' = removeSyncQueueItem(queue, snapshot[s][idx[s]].id)
  /\ result' = [result EXCEPT ![s].success = @ + 1]
  /\ disturbed' = Disturb(s)
  /\ Advance(s)
  /\ UNCHANGED <<seq, clock, guides, isOnline, snapshot, attempts, replayed,
                 fails, origin>>
  /\ mut' = NoMutation
  /\ UNCHANGED <<db, schema, adds>>
  /\ last' = NoOperation
  /\ UNCHANGED screen

\* SyncManager.clearQueue
ClearQueue ==
  /\ queue' = clearSyncQueue(queue)
  /\ disturbed' = Disturb(0)
  /\ UNCHANGED <<seq, clock, guides, isOnline, pc, snapshot, idx, result,
                 attempts, replayed, fails, origin>>
  /\ mut' = NoMutation
  /\ UNCHANGED <<db, schema, adds>>
  /\ last' = NoOperation
  /\ UNCHANGED screen

\* ------------------------------------------------------------ mutation hooks
Hooks == {"useCreateBookmark", "useDeleteBookmark", "useCreateNote",
          "useUpdateNote", "useDeleteNote", "useUpdatePosition"}

\* the variables one mutate() call passes to mutationFn, per hook
Variables(hook) ==
  CASE hook = "useCreateBookmark" ->
         {[guideId |-> "g1", data |-> [position |-> "100", name |-> "Ch.1"]],
          [guideId |-> "g1", data |-> [position |-> "7", name |-> Null,
                                       is_last_read |-> "true"]]}
    [] hook = "useDeleteBookmark" ->
         {[guideId |-> "g1", bookmarkId |-> "b1"]}
    [] hook = "useCreateNote" ->
         {[guideId |-> "g1", data |-> [content |-> "hello"]]}
    [] hook = "useUpdateNote" ->
         {[guideId |-> "g1", noteId |-> "n1",
           data |-> [position |-> Null, content |-> "v2"]]}
    [] hook = "useDeleteNote" ->
         {[guideId |-> "g1", noteId |-> "n1"]}
    [] hook = "useUpdatePosition" ->
         {[guideId |-> "g1", position |-> "100"]}

\* the remote call mutationFn returns when isOnline
onlineCall(hook, v) ==
  CASE hook = "useCreateBookmark" -> bookmarksApi_create(v.guideId, v.data)
    [] hook = "useDeleteBookmark" -> bookmarksApi_delete(v.guideId, v.bookmarkId)
    [] hook = "useCreateNote" -> notesApi_create(v.guideId, v.data)
    [] hook = "useUpdateNote" -> notesApi_update(v.guideId, v.noteId, v.data)
    [] hook = "useDeleteNote" -> notesApi_delete(v.guideId, v.noteId)
    [] hook = "useUpdatePosition" ->
         guidesApi_updatePosition(v.guideId, v.position)

\* every hook queueing the item of useUpdatePosition (copied branch)
queueItem_Copied(hook, v) ==
  [type |-> "position", action |-> "update",
   payload |-> [guideId |-> v.guideId, position |-> Get(v, "position")]]

\* the SyncQueueItem mutationFn hands to SyncManager.queueChange otherwise
queueItem(hook, v) ==
  CASE hook = "useCreateBookmark" ->
         [type |-> "bookmark", action |-> "create",
          payload |-> Spread([guideId |-> v.guideId], v.data)]
    [] hook = "useDeleteBookmark" ->
         [type |-> "bookmark", action |-> "delete",
          payload |-> [guideId |-> v.guideId, bookmarkId |-> v.bookmarkId]]
    [] hook = "useCreateNote" ->
         [type |-> "note", action |-> "create",
          payload |-> Spread([guideId |-> v.guideId], v.data)]
    [] hook = "useUpdateNote" ->
         [type |-> "note", action |-> "update",
          payload |-> Spread([guideId |-> v.guideId, noteId |-> v.noteId],
                             v.data)]
    [] hook = "useDeleteNote" ->
         [type |-> "note", action |-> "delete",
          payload |-> [guideId |-> v.guideId, noteId |-> v.noteId]]
    [] hook = "useUpdatePosition" ->
         [type |-> "position", action |-> "update",
          payload |-> [guideId |-> v.guideId, position |-> v.position]]

\* the value mutationFn resolves with after queueing; t1, t2 are the values
\* of the Date.now() reads that follow the await
optimistic(hook, v, t1, t2) ==
  CASE hook = "useCreateBookmark" ->
         [data |-> [id |-> <<"temp_", t1>>, guide_id |-> v.guideId,
                    created_at |-> t2]]
    [] hook = "useCreateNote" ->
         [data |-> [id |-> <<"temp_", t1>>, guide_id |-> v.guideId,
                    created_at |-> t1]]
    [] hook = "useUpdateNote" ->
         [data |-> [id |-> <<v.noteId>>, guide_id |-> v.guideId,
                    created_at |-> 0]]
    [] OTHER -> [success |-> TRUE]

\* an online branch that queues the change when the remote call rejects
MutateOnline_Fallback(hook) ==
  /\ isOnline
  /\ \E v \in Variables(hook) :
       \/ /\ mut' = [hook |-> hook, online |-> TRUE, status |-> "success",
                     calls |-> <<onlineCall(hook, v)>>, rejected |-> <<>>,
                     thrown |-> <<>>, value |-> <<"response">>,
                     queued |-> 0]
          /\ UNCHANGED <<queue, seq, clock, disturbed, origin>>
       \/ /\ seq < MaxWrites
          /\ \E thrown \in Thrown :
               mut' = [hook |-> hook, online |-> TRUE, status |-> "optimistic",
                       calls |-> <<onlineCall(hook, v)>>,
                       rejected |-> <<thrown>>, thrown |-> <<>>,
                       value |-> <<optimistic(hook, v, clock, clock)>>,
                       queued |-> seq + 1]
          /\ addToSyncQueue(queueItem(hook, v).type, queueItem(hook, v).action,
                            queueItem(hook, v).payload, clock)
          /\ disturbed' = Disturb(0)
          /\ origin' = [origin EXCEPT ![seq + 1] =
                          [hook |-> hook, variables |-> <<v>>,
                           value |-> <<optimistic(hook, v, clock, clock)>>]]
          /\ UNCHANGED clock
  /\ UNCHANGED <<guides, isOnline, pc, snapshot, idx, result, attempts,
                 replayed, fails>>
  /\ UNCHANGED <<db, schema, adds>>
  /\ last' = NoOperation
  /\ UNCHANGED screen

\* mutationFn, branch if (isOnline): the remote call is returned as it
\* settles
MutateOnline(hook) ==
  /\ isOnline
  /\ \E v \in Variables(hook) :
       \/ mut' = [hook |-> hook, online |-> TRUE, status |-> "success",
                  calls |-> <<onlineCall(hook, v)>>, rejected |-> <<>>,
                  thrown |-> <<>>, value |-> <<"response">>, queued |-> 0]
       \/ \E thrown \in Thrown :
            mut' = [hook |-> hook, online |-> TRUE, status |-> "error",
                    calls |-> <<onlineCall(hook, v)>>,
                    rejected |-> <<thrown>>, thrown |-> <<thrown>>,
                    value |-> <<>>, queued |-> 0]
  /\ UNCHANGED <<queue, seq, clock, guides, isOnline, pc, snapshot, idx,
                 result, attempts, disturbed, replayed, fails, origin>>
  /\ UNCHANGED <<db, schema, adds>>
  /\ last' = NoOperation
  /\ UNCHANGED screen

\* mutationFn, offline branch: await SyncManager.queueChange(...), then the
\* optimistic value is built and returned
MutateOffline(hook, max) ==
  /\ ~isOnline
  /\ seq < max
  /\ \E v \in Variables(hook) :
       \E now \in DateNow :
         /\ addToSyncQueue(queueItem(hook, v).type, queueItem(hook, v).action,
                           queueItem(hook, v).payload, now)
         /\ disturbed' = Disturb(0)
         /\ \E t1 \in {t \in now..(now + 1) : t <= MaxClock} :
              \E t2 \in {t \in t1..(t1 + 1) : t <= MaxClock} :
                /\ origin' = [origin EXCEPT ![seq + 1] =
                                [hook |-> hook, variables |-> <<v>>,
                                 value |-> <<optimistic(hook, v, t1, t2)>>]]
                /\ clock' = (IF hook = "useCreateBookmark" THEN t2
                             ELSE IF hook = "useCreateNote" THEN t1 ELSE now)
                /\ (hook # "useCreateBookmark" => t2 = t1)
                /\ (hook \notin {"useCreateBookmark", "useCreateNote"}
                      => t1 = now)
                /\ mut' = [hook |-> hook, online |-> FALSE,
                           status |-> "optimistic", calls |-> <<>>,
                           rejected |-> <<>>, thrown |-> <<>>,
                           value |-> <<optimistic(hook, v, t1, t2)>>,
                           queued |-> seq + 1]
  /\ UNCHANGED <<guides, isOnline, pc, snapshot, idx, result, attempts,
                 replayed, fails>>
  /\ UNCHANGED <<db, schema, adds>>
  /\ last' = NoOperation
  /\ UNCHANGED screen

\* NetInfo reports a connectivity change
SetOnline ==
  /\ isOnline' = ~isOnline
  /\ UNCHANGED <<queue, seq, clock, guides, pc, snapshot, idx, result,
                 attempts, disturbed, replayed, fails, origin>>
  /\ mut' = NoMutation
  /\ UNCHANGED <<db, schema, adds>>
  /\ last' = NoOperation
  /\ UNCHANGED screen

\* ------------------------------------------------- direct use of SyncManager
\* items a caller of SyncManager.queueChange / offlineCache.addToSyncQueue
\* may pass: a row of the dispatch table, a known type with an action the
\* table does not list, and a type the dispatcher does not know
SyncItems ==
  {[type |-> "position", action |-> "update",
    payload |-> [guideId |-> "g1", position |-> "100"]],
   [type |-> "position", action |-> "create",
    payload |-> [guideId |-> "g1", position |-> "100"]],
   [type |-> "bogus", action |-> "create", payload |-> [guideId |-> "g1"]]}

NoOrigin == [hook |-> "none", variables |-> <<>>, value |-> <<>>]

QueueChange(max) ==
  /\ seq < max
  /\ \E item \in SyncItems :
       \E now \in DateNow : queueChange(item, now)
  /\ UNCHANGED <<guides, isOnline, pc, snapshot, idx, result, attempts,
                 replayed, fails, origin>>
  /\ mut' = NoMutation
  /\ UNCHANGED <<db, schema, adds>>
  /\ last' = NoOperation
  /\ UNCHANGED screen

\* ------------------------------------------------------------ specification
\* the tables of a fresh install: the schema exists, both tables are empty
Init ==
  /\ queue = {}
  /\ seq = 0
  /\ clock = 1
  /\ guides = {}
  /\ isOnline = FALSE
  /\ pc = [s \in Syncers |-> "idle"]
  /\ snapshot = [s \in Syncers |-> <<>>]
  /\ idx = [s \in Syncers |-> 1]
  /\ result = [s \in Syncers |-> EmptyResult]
  /\ attempts = [s \in Syncers |-> <<>>]
  /\ disturbed = [s \in Syncers |-> FALSE]
  /\ replayed = <<>>
  /\ fails = 0
  /\ origin = [i \in 1..(MaxEnq + MaxWrites) |-> NoOrigin]
  /\ mut = NoMutation
  /\ db = 1
  /\ schema = TRUE
  /\ adds = [n \in Adders |-> NoAdd]
  /\ last = NoOperation
  /\ screen = NoScreen

\* the sync orchestrator with serialized syncAll invocations and changes
\* queued at any time
Next ==
  \/ QueueChange(MaxEnq)
  \/ SyncStart(1)
  \/ DispatchOk(1)
  \/ DispatchFail(1)
  \/ DispatchNone(1)
  \/ DispatchThrow(1)
  \/ Remove(1)

Spec == Init /\ [][Next]_vars

\* syncAll is invoked again and again and every await of a run settles; the
\* remote calls reject at most MaxFail times, and the queue may be cleared
\* at any time
NextLive ==
  \/ QueueChange(MaxLiveEnq)
  \/ ClearQueue
  \/ SyncStart(1)
  \/ DispatchOk(1)
  \/ DispatchFail(1)
  \/ DispatchNone(1)
  \/ DispatchThrow(1)
  \/ Remove(1)

SpecLive ==
  /\ Init
  /\ [][NextLive]_vars
  /\ WF_vars(SyncStart(1))
  /\ WF_vars(DispatchOk(1))
  /\ WF_vars(DispatchNone(1))
  /\ WF_vars(DispatchThrow(1))
  /\ WF_vars(Remove(1))

\* the write path: the six hooks queueing offline, then the orchestrator
NextWrite ==
  \/ \E hook \in Hooks : MutateOffline(hook, MaxWrites)
  \/ SetOnline
  \/ SyncStart(1)
  \/ DispatchOk(1)
  \/ DispatchFail(1)
  \/ Remove(1)

\* the app starts with one guide downloaded in an earlier session
InitWrite ==
  /\ queue = {}
  /\ seq = 0
  /\ clock = 1
  /\ guides = saveGuide({}, CHOOSE g \in GuideInputs : g.title = "A", 1)
  /\ isOnline = FALSE
  /\ pc = [s \in Syncers |-> "idle"]
  /\ snapshot = [s \in Syncers |-> <<>>]
  /\ idx = [s \in Syncers |-> 1]
  /\ result = [s \in Syncers |-> EmptyResult]
  /\ attempts = [s \in Syncers |-> <<>>]
  /\ disturbed = [s \in Syncers |-> FALSE]
  /\ replayed = <<>>
  /\ fails = 0
  /\ origin = [i \in 1..(MaxEnq + MaxWrites) |-> NoOrigin]
  /\ mut = NoMutation
  /\ db = 1
  /\ schema = TRUE
  /\ adds = [n \in Adders |-> NoAdd]
  /\ last = NoOperation
  /\ screen = NoScreen

SpecWrite == InitWrite /\ [][NextWrite]_vars

\* ------------------------------------------------------------- properties
\* the six rows of the dispatch table of the specification
DispatchTable ==
  {<<"position", "update">>, <<"bookmark", "create">>,
   <<"bookmark", "delete">>, <<"note", "create">>, <<"note", "update">>,
   <<"note", "delete">>}

QueueIds == {r.id : r \in queue}

\* ids of the entries whose dispatch threw in the run of slot s
ThrewIds(s) ==
  {attempts[s][i].id : i \in {j \in 1..Len(attempts[s]) : attempts[s][j].threw}}

\* the entries of the snapshot of slot s whose dispatch threw, in its order
Kept(s) ==
  LET threw(it) == it.id \in ThrewIds(s)
  IN SelectSeq(snapshot[s], threw)

\* C1: partial failure isolation. When a syncAll that ran alone (no other
\* syncAll, nothing enqueued or cleared since its drain) has returned, the
\* queue holds exactly the entries whose dispatch threw, in the order of the
\* snapshot, every entry whose dispatch succeeded is gone, and the result
\* counts the successes, the failures and one message per failure.
PartialFailureIsolation ==
  (pc[1] = "done" /\ ~disturbed[1]) =>
     /\ Kept(1) \in getSyncQueue(queue)
     /\ \A i \in 1..Len(attempts[1]) :
          ~attempts[1][i].threw => attempts[1][i].id \notin QueueIds
     /\ result[1].failed = Cardinality(ThrewIds(1))
     /\ result[1].success = Len(snapshot[1]) - Cardinality(ThrewIds(1))
     /\ Len(result[1].errors) = Cardinality(ThrewIds(1))

\* three entries, only the second throws: success 2, failed 1, one message,
\* and the queue holds only the second entry
PartialFailureWitness ==
  /\ pc[1] = "done" /\ ~disturbed[1]
  /\ Len(snapshot[1]) = 3 /\ Len(attempts[1]) = 3
  /\ ~attempts[1][1].threw /\ attempts[1][2].threw /\ ~attempts[1][3].threw
  /\ result[1].success = 2 /\ result[1].failed = 1
  /\ Len(result[1].errors) = 1
  /\ QueueIds = {snapshot[1][2].id}

\* C2: no fail-fast. The loop attempts the entries of its snapshot one by
\* one in snapshot order, each exactly once, whatever the earlier outcomes;
\* when syncAll has returned every entry of the snapshot was attempted and
\* success + failed is the length of the snapshot (0/0/[] when it is empty).
NoFailFast ==
  /\ Len(attempts[1]) <= Len(snapshot[1])
  /\ \A i \in 1..Len(attempts[1]) : attempts[1][i].id = snapshot[1][i].id
  /\ \A i, j \in 1..Len(snapshot[1]) :
       i # j => snapshot[1][i].id # snapshot[1][j].id
  /\ pc[1] = "done" =>
       /\ Len(attempts[1]) = Len(snapshot[1])
       /\ result[1].success + result[1].failed = Len(snapshot[1])
       /\ Len(snapshot[1]) = 0 => result[1] = EmptyResult

\* a run that went on after its first entry threw
NoFailFastWitness ==
  /\ pc[1] = "done"
  /\ Len(attempts[1]) = 3
  /\ attempts[1][1].threw /\ ~attempts[1][2].threw /\ attempts[1][3].threw

\* C3: unknown sync type rejection, as claimed. processQueueItem throws
\* 'Unknown sync type: <type>' for every item whose (type, action) is not a
\* row of the dispatch table, and syncAll counts no such entry as a success.
UnknownSyncTypeRejected ==
  \A i \in 1..Len(snapshot[1]) :
    LET it == snapshot[1][i]
    IN <<it.type, it.action>> \notin DispatchTable =>
         /\ processQueueItem(it).outcome = "throw"
         /\ processQueueItem(it).message = <<"Unknown sync type: ", it.type>>
         /\ i <= Len(attempts[1]) => attempts[1][i].threw

\* the remote call the dispatch table assigns to a queue item, built from
\* the fields of its payload that the row consumes
TableCall(it) ==
  LET p == it.payload
      fields(ks) == {<<k, p[k]>> : k \in ks \cap DOMAIN p}
      pair == <<it.type, it.action>>
  IN CASE pair = <<"position", "update">> ->
            [op |-> "guidesApi.updatePosition",
             path |-> <<"guides", p.guideId, "position">>,
             body |-> fields({"position"})]
       [] pair = <<"bookmark", "create">> ->
            [op |-> "bookmarksApi.create",
             path |-> <<"guides", p.guideId, "bookmarks">>,
             body |-> fields({"position", "name", "page_reference",
                              "is_last_read"})]
       [] pair = <<"bookmark", "delete">> ->
            [op |-> "bookmarksApi.delete",
             path |-> <<"guides", p.guideId, "bookmarks", p.bookmarkId>>,
             body |-> {}]
       [] pair = <<"note", "create">> ->
            [op |-> "notesApi.create",
             path |-> <<"guides", p.guideId, "notes">>,
             body |-> fields({"position", "content"})]
       [] pair = <<"note", "update">> ->
            [op |-> "notesApi.update",
             path |-> <<"guides", p.guideId, "notes", p.noteId>>,
             body |-> fields({"position", "content"})]
       [] pair = <<"note", "delete">> ->
            [op |-> "notesApi.delete",
             path |-> <<"guides", p.guideId, "notes", p.noteId>>,
             body |-> {}]

\* C4: dispatch table. One processQueueItem call on an item of one of the
\* six rows makes exactly one remote call, the one the table assigns to the
\* row with the payload fields of the row, whether the call resolves or
\* rejects (no second call, no retry), and changes neither the queue nor
\* the guide cache.
DispatchTableHolds ==
  [][(/\ pc[1] = "dispatch"
      /\ pc'[1] # "dispatch" \/ idx'[1] # idx[1]
      /\ <<snapshot[1][idx[1]].type, snapshot[1][idx[1]].action>>
            \in DispatchTable)
     => /\ Len(replayed') = Len(replayed) + 1
        /\ SubSeq(replayed', 1, Len(replayed)) = replayed
        /\ LET c == replayed'[Len(replayed')].call
               t == TableCall(snapshot[1][idx[1]])
           IN c.op = t.op /\ c.path = t.path /\ c.body = t.body
        /\ queue' = queue /\ seq' = seq /\ guides' = guides]_vars

\* a queued bookmark deletion was dispatched while a guide is cached and
\* another change is still queued
DispatchTableWitness ==
  /\ replayed # <<>>
  /\ replayed[Len(replayed)].call.op = "bookmarksApi.delete"
  /\ replayed[Len(replayed)].call.path = <<"guides", "g1", "bookmarks", "b1">>
  /\ pc[1] = "remove"
  /\ guides # {}

\* the (type, action) each hook queues
HookPair(hook) ==
  CASE hook = "useCreateBookmark" -> <<"bookmark", "create">>
    [] hook = "useDeleteBookmark" -> <<"bookmark", "delete">>
    [] hook = "useCreateNote" -> <<"note", "create">>
    [] hook = "useUpdateNote" -> <<"note", "update">>
    [] hook = "useDeleteNote" -> <<"note", "delete">>
    [] hook = "useUpdatePosition" -> <<"position", "update">>

\* the remote operation each hook calls directly
HookOp(hook) ==
  CASE hook = "useCreateBookmark" -> "bookmarksApi.create"
    [] hook = "useDeleteBookmark" -> "bookmarksApi.delete"
    [] hook = "useCreateNote" -> "notesApi.create"
    [] hook = "useUpdateNote" -> "notesApi.update"
    [] hook = "useDeleteNote" -> "notesApi.delete"
    [] hook = "useUpdatePosition" -> "guidesApi.updatePosition"

\* the variables of a call as JSON members: the fields beside data, and the
\* fields of data that hold a value
FlatVariables(v) ==
  {<<k, v[k]>> : k \in (DOMAIN v) \ {"data"}} \cup
  (IF "data" \in DOMAIN v
   THEN {<<k, v.data[k]>> : k \in {j \in DOMAIN v.data : v.data[j] # Undef}}
   ELSE {})

\* C5: offline branch. A mutationFn call made while isOnline is false adds
\* exactly one row to the queue, with the type and action of the hook and a
\* payload holding the variables of the call, makes no remote call, and
\* resolves with the optimistic result.
OfflineBranch ==
  [][(mut'.hook # "none" /\ ~isOnline)
     => /\ ~mut'.online
        /\ mut'.status = "optimistic"
        /\ mut'.calls = <<>> /\ mut'.thrown = <<>>
        /\ mut'.value # <<>>
        /\ replayed' = replayed
        /\ Cardinality(queue') = Cardinality(queue) + 1
        /\ \E r \in queue' :
             /\ r \notin queue
             /\ queue' = queue \cup {r}
             /\ r.id = mut'.queued
             /\ <<r.type, r.action>> = HookPair(mut'.hook)
             /\ origin'[r.id].hook = mut'.hook
             /\ r.payload = FlatVariables(origin'[r.id].variables[1])]_vars

\* an offline note update has just been queued
OfflineBranchWitness ==
  /\ mut.hook = "useUpdateNote"
  /\ mut.status = "optimistic"
  /\ ~isOnline
  /\ \E r \in queue : r.id = mut.queued /\ r.type = "note"

\* C6: online branch. A mutationFn call made while isOnline is true makes
\* exactly the direct remote call of its hook and queues nothing; when that
\* call rejects, the call rejects with the same value and the queue is
\* unchanged.
OnlineBranch ==
  [][(mut'.hook # "none" /\ isOnline)
     => /\ mut'.online
        /\ Len(mut'.calls) = 1
        /\ mut'.calls[1].op = HookOp(mut'.hook)
        /\ queue' = queue /\ seq' = seq /\ origin' = origin
        /\ replayed' = replayed
        /\ mut'.queued = 0
        /\ mut'.rejected = <<>> => mut'.status = "success"
        /\ mut'.rejected # <<>> =>
             mut'.status = "error" /\ mut'.thrown = mut'.rejected]_vars

\* an online mutation failed while an earlier change is still queued
OnlineBranchWitness ==
  /\ mut.online
  /\ mut.status = "error"
  /\ mut.thrown # <<>>
  /\ Cardinality(queue) = 1

\* positions of the replayed calls made for queue id
CallsFor(id) == {i \in 1..Len(replayed) : replayed[i].id = id}

\* ids whose dispatch has succeeded
Synced == {replayed[i].id : i \in {j \in 1..Len(replayed) : replayed[j].ok}}

\* C7: offline-then-sync is equivalent to the online call. Every call that
\* syncAll makes for a change queued by a hook equals the call the online
\* branch makes for the same variables; the change is called successfully
\* exactly once, when it leaves the queue; the queue count is the number of
\* queued changes minus those synced; and a run in which every dispatch
\* succeeded counts every entry as a success and leaves the queue as it was
\* before they were queued.
OfflineThenSyncEquivalent ==
  /\ \A id \in 1..seq :
       origin[id].hook # "none" =>
         /\ \A i \in CallsFor(id) :
              replayed[i].call =
                onlineCall(origin[id].hook, origin[id].variables[1])
         /\ Cardinality({i \in CallsFor(id) : replayed[i].ok}) =
              (IF /\ id \in QueueIds
                  /\ ~(pc[1] = "remove" /\ snapshot[1][idx[1]].id = id)
               THEN 0 ELSE 1)
  /\ getSyncQueueCount(queue) = seq - Cardinality(Synced \ QueueIds)
  /\ (pc[1] = "done" /\ ~disturbed[1] /\ ThrewIds(1) = {}) =>
       /\ getSyncQueueCount(queue) = 0
       /\ result[1].success = Len(snapshot[1])
       /\ result[1].failed = 0

\* the bookmark created offline has been synced by one call
OfflineThenSyncWitness ==
  /\ pc[1] = "done"
  /\ origin[1].hook = "useCreateBookmark"
  /\ Len(replayed) = 1
  /\ replayed[1].ok
  /\ replayed[1].call.op = "bookmarksApi.create"
  /\ result[1].success = 1
  /\ getSyncQueueCount(queue) = 0

\* C8 as claimed: causal replay order. Over any sequence of serialized
\* syncAll runs, when change a was created before change b (smaller id,
\* earlier created_at), the remote API does not receive the successful call
\* of b before the successful call of a.
CausalReplayOrder ==
  \A i, j \in 1..Len(replayed) :
    (/\ i < j
     /\ replayed[i].ok /\ replayed[j].ok
     /\ replayed[j].id < replayed[i].id)
    => ~(replayed[j].at < replayed[i].at)

\* C8 amended: within one syncAll run the entries are attempted in
\* ascending created_at order: an entry is never attempted after one that
\* was created later.
ReplayOrderWithinRun ==
  \A i, j \in 1..Len(attempts[1]) :
    i < j =>
      /\ attempts[1][i].id = snapshot[1][i].id
      /\ attempts[1][j].id = snapshot[1][j].id
      /\ snapshot[1][i].created_at <= snapshot[1][j].created_at

\* a run retries an older change next to a younger one, after a rejected call
ReplayOrderWitness ==
  /\ fails = 1
  /\ Len(attempts[1]) = 2
  /\ snapshot[1][1].created_at < snapshot[1][2].created_at
  /\ \E i \in 1..Len(replayed) :
       ~replayed[i].ok /\ replayed[i].id = attempts[1][1].id

\* the rows of the queue that processQueueItem rejects on every attempt
Undispatchable ==
  {r \in queue :
     processQueueItem([r EXCEPT !.payload = JSONParse(r.payload)]).outcome
       = "throw"}

\* C9: retry until drained. An entry whose dispatch failed stays in the
\* queue, the next syncAll drains it with everything else in the queue and
\* attempts it again; and when syncAll keeps being invoked, enqueueing
\* stops and no queued change fails forever, the queue becomes empty.
RetryUntilDrained ==
  /\ [][(/\ Len(attempts'[1]) = Len(attempts[1]) + 1
         /\ attempts'[1][Len(attempts'[1])].threw)
        => queue' = queue]_vars
  /\ [][(pc[1] \in {"idle", "done"} /\ snapshot'[1] # snapshot[1])
        => {snapshot'[1][k].id : k \in 1..Len(snapshot'[1])} = QueueIds]_vars
  /\ ([](Undispatchable = {})) => ((queue # {}) ~> (queue = {}))

\* a change whose call was rejected in one run was retried with success in
\* a later run and the queue is empty
RetryWitness ==
  /\ queue = {}
  /\ pc[1] = "done"
  /\ \E i, j \in 1..Len(replayed) :
       /\ i < j
       /\ replayed[i].id = replayed[j].id
       /\ ~replayed[i].ok /\ replayed[j].ok

\* C10: queue FIFO. When the rows in the queue carry created_at timestamps
\* that increase strictly in the order they were enqueued, every array
\* getSyncQueue may return lists all of them in that order, whichever rows
\* were removed before.
QueueFIFO ==
  (\A a, b \in queue : a.id < b.id => a.created_at < b.created_at) =>
    \A s \in getSyncQueue(queue) :
      /\ Len(s) = Cardinality(queue)
      /\ {s[i].id : i \in 1..Len(s)} = QueueIds
      /\ \A i, j \in 1..Len(s) : i < j => s[i].id < s[j].id

\* A, B, C queued at three distinct times
QueueFIFOWitness ==
  /\ QueueIds = {1, 2, 3}
  /\ \A a, b \in queue : a.id < b.id => a.created_at < b.created_at

\* C11 as claimed: strict creation-time ordering. In every reachable state
\* every array getSyncQueue may return lists the entries in the order in
\* which they were enqueued (ascending id), whatever value Date.now() gave
\* to their created_at.
QueueStrictOrder ==
  \A s \in getSyncQueue(queue) :
    \A i, j \in 1..Len(s) : i < j => s[i].id < s[j].id

\* ------------------------------------------- concurrent use of offlineCache
\* items the concurrent callers of addToSyncQueue pass
StoreItems ==
  {[type |-> "position", action |-> "update",
    payload |-> [guideId |-> "g1", position |-> "100"]],
   [type |-> "bookmark", action |-> "delete",
    payload |-> [guideId |-> "g1", bookmarkId |-> "b1"]]}

\* addToSyncQueue is called and runs getDb up to its first await: with db
\* null it awaits openDatabaseAsync, otherwise getDb returns db
AddCall(n) ==
  /\ adds[n].pc = "idle"
  /\ \A m \in Adders : m < n => adds[m].pc # "idle"
  /\ \E item \in StoreItems :
       adds' = [adds EXCEPT ![n] =
                  [pc |-> IF db = 0 THEN "open" ELSE "insert",
                   op |-> "addToSyncQueue", item |-> <<item>>, conn |-> db,
                   id |-> 0, at |-> 0, opened |-> FALSE]]
  /\ UNCHANGED <<queue, seq, clock, guides, isOnline, pc, snapshot, idx,
                 result, attempts, disturbed, replayed, fails, origin, db,
                 schema>>
  /\ mut' = NoMutation
  /\ last' = NoOperation
  /\ UNCHANGED screen

\* getDb: db = await SQLite.openDatabaseAsync(DB_NAME); initializeSchema()
\* runs up to its await with the connection just assigned
AddOpen(n) ==
  /\ adds[n].pc = "open"
  /\ db' = n
  /\ adds' = [adds EXCEPT ![n].pc = "schema", ![n].opened = TRUE]
  /\ UNCHANGED <<queue, seq, clock, guides, isOnline, pc, snapshot, idx,
                 result, attempts, disturbed, replayed, fails, origin,
                 schema>>
  /\ mut' = NoMutation
  /\ last' = NoOperation
  /\ UNCHANGED screen

\* initializeSchema with CREATE TABLE in place of CREATE TABLE IF NOT EXISTS:
\* the statement is rejected when the tables exist
AddSchema_Create(n) ==
  /\ adds[n].pc = "schema"
  /\ schema' = TRUE
  /\ adds' = [adds EXCEPT ![n].pc = IF schema THEN "failed" ELSE "insert",
                          ![n].conn = db]
  /\ UNCHANGED <<queue, seq, clock, guides, isOnline, pc, snapshot, idx,
                 result, attempts, disturbed, replayed, fails, origin, db>>
  /\ mut' = NoMutation
  /\ last' = NoOperation
  /\ UNCHANGED screen

\* getDb: initializeSchema() has resolved (CREATE TABLE IF NOT EXISTS), and
\* getDb returns the connection db holds now
AddSchema(n) ==
  /\ adds[n].pc = "schema"
  /\ schema' = TRUE
  /\ adds' = [adds EXCEPT ![n].pc = "insert", ![n].conn = db]
  /\ UNCHANGED <<queue, seq, clock, guides, isOnline, pc, snapshot, idx,
                 result, attempts, disturbed, replayed, fails, origin, db>>
  /\ mut' = NoMutation
  /\ last' = NoOperation
  /\ UNCHANGED screen

\* addToSyncQueue: database.runAsync(INSERT ...) with Date.now(); a
\* statement issued on a connection runs after the statements issued on it
\* before, so the INSERT finds the tables
AddInsert(n) ==
  /\ adds[n].pc = "insert"
  /\ adds[n].op = "addToSyncQueue"
  /\ schema
  /\ \E now \in DateNow :
       LET item == adds[n].item[1]
       IN /\ addToSyncQueue(item.type, item.action, item.payload, now)
          /\ clock' = now
          /\ adds' = [adds EXCEPT ![n].pc = "done", ![n].id = seq + 1,
                                  ![n].at = now]
          /\ last' = [op |-> "addToSyncQueue", arg |-> <<item>>,
                      ret |-> <<>>]
  /\ disturbed' = Disturb(0)
  /\ UNCHANGED <<guides, isOnline, pc, snapshot, idx, result, attempts,
                 replayed, fails, origin, db, schema>>
  /\ mut' = NoMutation
  /\ UNCHANGED screen

\* offlineCache.getSyncQueue called on its own, on the open connection
GetSyncQueue ==
  /\ schema
  /\ \E snap \in getSyncQueue(queue) :
       last' = [op |-> "getSyncQueue", arg |-> <<>>, ret |-> <<snap>>]
  /\ UNCHANGED <<queue, seq, clock, guides, isOnline, pc, snapshot, idx,
                 result, attempts, disturbed, replayed, fails, origin, db,
                 schema, adds>>
  /\ mut' = NoMutation
  /\ UNCHANGED screen

\* SyncManager.getPendingCount: offlineCache.getSyncQueueCount
GetPendingCount ==
  /\ schema
  /\ last' = [op |-> "getSyncQueueCount", arg |-> <<>>,
              ret |-> <<getSyncQueueCount(queue)>>]
  /\ UNCHANGED <<queue, seq, clock, guides, isOnline, pc, snapshot, idx,
                 result, attempts, disturbed, replayed, fails, origin, db,
                 schema, adds>>
  /\ mut' = NoMutation
  /\ UNCHANGED screen

\* syncAll invoked once the connection is open
SyncStartOpen(s) == schema /\ SyncStart(s)

\* before the first use of offlineCache in a session: db is null; the
\* database file is the one of a fresh install
InitStore ==
  /\ queue = {}
  /\ seq = 0
  /\ clock = 1
  /\ guides = {}
  /\ isOnline = FALSE
  /\ pc = [s \in Syncers |-> "idle"]
  /\ snapshot = [s \in Syncers |-> <<>>]
  /\ idx = [s \in Syncers |-> 1]
  /\ result = [s \in Syncers |-> EmptyResult]
  /\ attempts = [s \in Syncers |-> <<>>]
  /\ disturbed = [s \in Syncers |-> FALSE]
  /\ replayed = <<>>
  /\ fails = 0
  /\ origin = [i \in 1..(MaxEnq + MaxWrites) |-> NoOrigin]
  /\ mut = NoMutation
  /\ db = 0
  /\ schema = FALSE
  /\ adds = [n \in Adders |-> NoAdd]
  /\ last = NoOperation
  /\ screen = NoScreen

\* concurrent addToSyncQueue calls, reads of the queue and one syncAll
NextStore ==
  \/ \E n \in Adders : AddCall(n)
  \/ \E n \in Adders : AddOpen(n)
  \/ \E n \in Adders : AddSchema(n)
  \/ \E n \in Adders : AddInsert(n)
  \/ SyncStartOpen(1)
  \/ DispatchOk(1)
  \/ Remove(1)

SpecStore == InitStore /\ [][NextStore]_vars

\* addToSyncQueue calls, reads of the queue and one syncAll on a connection
\* that is open
NextRead ==
  \/ \E n \in Adders : AddCall(n)
  \/ \E n \in Adders : AddInsert(n)
  \/ GetSyncQueue
  \/ GetPendingCount
  \/ SyncStart(1)
  \/ DispatchOk(1)
  \/ Remove(1)

SpecRead == Init /\ [][NextRead]_vars

\* the concurrent addToSyncQueue calls that have resolved
AddsDone == {n \in Adders : adds[n].pc = "done"}

\* the entry e of a getSyncQueue result shows what one resolved call enqueued
AsEnqueued(e) ==
  \E n \in AddsDone :
    /\ adds[n].id = e.id
    /\ adds[n].item[1].type = e.type
    /\ adds[n].item[1].action = e.action
    /\ adds[n].item[1].payload = e.payload
    /\ adds[n].at = e.created_at

\* C12: queue entries are immutable and reads do not consume. Every entry
\* of every getSyncQueue result (a direct call, or the drain of syncAll)
\* has the id, type, action, payload and created_at it was enqueued with;
\* no step changes a row that stays in the queue; getSyncQueue, the drain
\* of syncAll and getSyncQueueCount leave the queue as it is; and
\* addToSyncQueue adds one row and changes nothing else of the two tables.
QueueEntriesImmutable ==
  /\ [](/\ \A i \in 1..Len(snapshot[1]) : AsEnqueued(snapshot[1][i])
        /\ last.op = "getSyncQueue" =>
             /\ Len(last.ret[1]) = Cardinality(queue)
             /\ \A i \in 1..Len(last.ret[1]) : AsEnqueued(last.ret[1][i])
        /\ last.op = "getSyncQueueCount" => last.ret[1] = Cardinality(queue))
  /\ [][/\ \A r \in queue : r.id \in {q.id : q \in queue'} => r \in queue'
        /\ last'.op \in {"getSyncQueue", "getSyncQueueCount"} =>
             queue' = queue /\ seq' = seq /\ guides' = guides
        /\ snapshot' # snapshot =>
             queue' = queue /\ seq' = seq /\ guides' = guides
        /\ last'.op = "addToSyncQueue" =>
             /\ queue \subseteq queue'
             /\ Cardinality(queue' \ queue) = 1
             /\ guides' = guides]_vars

\* a direct getSyncQueue, made after syncAll removed the first entry of its
\* snapshot, returned the second entry as syncAll had drained it
QueueEntriesWitness ==
  /\ last.op = "getSyncQueue"
  /\ Len(last.ret[1]) = 1
  /\ pc[1] = "dispatch"
  /\ idx[1] = 2
  /\ last.ret[1][1] = snapshot[1][2]

\* C13: concurrent enqueue is safe. Whatever the interleaving of the
\* concurrent addToSyncQueue calls with each other (the first ones racing
\* through getDb) and with a running syncAll, every resolved call has
\* inserted exactly one row with an id of its own and its own type, action
\* and payload; the row is in the queue unless syncAll dispatched it with
\* success, and the queue holds nothing else.
ConcurrentEnqueueSafe ==
  /\ seq = Cardinality(AddsDone)
  /\ \A n \in AddsDone : adds[n].id \in 1..seq
  /\ \A n, m \in AddsDone : n # m => adds[n].id # adds[m].id
  /\ \A n \in AddsDone :
       LET rows == {r \in queue : r.id = adds[n].id}
       IN /\ Cardinality(rows) <= 1
          /\ \A r \in rows :
               /\ r.type = adds[n].item[1].type
               /\ r.action = adds[n].item[1].action
               /\ JSONParse(r.payload) = adds[n].item[1].payload
          /\ rows = {} => adds[n].id \in Synced
  /\ \A r \in queue : \E n \in AddsDone : adds[n].id = r.id
  /\ Cardinality(queue) =
       Cardinality(AddsDone) - Cardinality(Synced \ QueueIds)

\* three calls raced through getDb (the connection was opened more than
\* once), the first call inserted last, and syncAll has removed an entry
ConcurrentEnqueueWitness ==
  /\ AddsDone = Adders
  /\ db # 1
  /\ adds[1].id = MaxAdds
  /\ Synced \ QueueIds # {}

\* ------------------------------------------------- overlapping syncAll runs
\* two changes were queued, at times 1 and 2, before any syncAll was invoked
InitOverlap ==
  /\ queue = {[id |-> 1, type |-> "position", action |-> "update",
               payload |-> JSONStringify([guideId |-> "g1",
                                          position |-> "100"]),
               created_at |-> 1],
              [id |-> 2, type |-> "bookmark", action |-> "delete",
               payload |-> JSONStringify([guideId |-> "g1",
                                          bookmarkId |-> "b1"]),
               created_at |-> 2]}
  /\ seq = 2
  /\ clock = 2
  /\ guides = {}
  /\ isOnline = TRUE
  /\ pc = [s \in Syncers |-> "idle"]
  /\ snapshot = [s \in Syncers |-> <<>>]
  /\ idx = [s \in Syncers |-> 1]
  /\ result = [s \in Syncers |-> EmptyResult]
  /\ attempts = [s \in Syncers |-> <<>>]
  /\ disturbed = [s \in Syncers |-> FALSE]
  /\ replayed = <<>>
  /\ fails = 0
  /\ origin = [i \in 1..(MaxEnq + MaxWrites) |-> NoOrigin]
  /\ mut = NoMutation
  /\ db = 1
  /\ schema = TRUE
  /\ adds = [n \in Adders |-> NoAdd]
  /\ last = NoOperation
  /\ screen = NoScreen

\* two syncAll invocations that may overlap
NextOverlap ==
  \/ \E s \in Syncers : SyncStart(s)
  \/ \E s \in Syncers : DispatchOk(s)
  \/ \E s \in Syncers : DispatchFail(s)
  \/ \E s \in Syncers : Remove(s)

SpecOverlap == InitOverlap /\ [][NextOverlap]_vars

\* C14: overlapping syncAll is undefended. syncAll holds no in-flight guard
\* or lock: a syncAll that is not running can start and drain the queue at
\* any time, also while another invocation is between its drain and its
\* last removal (so both may hold, and dispatch, the same change).
OverlapUndefended ==
  \A s \in Syncers : pc[s] \in {"idle", "done"} => ENABLED SyncStart(s)

\* duplicate dispatch: the remote API received two successful calls for the
\* same queued change, one from each of two overlapping invocations
DuplicateDispatchWitness ==
  /\ pc[1] = "remove" /\ pc[2] = "remove"
  /\ snapshot[1][idx[1]].id = snapshot[2][idx[2]].id
  /\ \E i, j \in 1..Len(replayed) :
       /\ i < j
       /\ replayed[i].id = replayed[j].id
       /\ replayed[i].call = replayed[j].call
       /\ replayed[i].ok /\ replayed[j].ok

\* C15: queue ids. The id the store assigns to a pending change is greater
\* than every id assigned before it, also after rows were removed or the
\* queue was cleared (no id is assigned twice); the id addresses the
\* removal of exactly its row; and what processQueueItem does with an
\* entry, the remote call included, does not depend on the id.
QueueIdsMonotonic ==
  /\ [](/\ \A r \in queue : r.id \in 1..seq
        /\ \A r1, r2 \in queue : r1.id = r2.id => r1 = r2
        /\ \A r \in queue : \A k \in 0..(seq + 1) :
             LET item == [r EXCEPT !.payload = JSONParse(r.payload)]
             IN processQueueItem([item EXCEPT !.id = k]) =
                  processQueueItem(item))
  /\ [][/\ seq' >= seq
        /\ \A r \in queue' \ queue :
             /\ r.id = seq + 1
             /\ seq' = seq + 1
             /\ queue' = queue \cup {r}
        /\ pc[1] = "remove" /\ pc'[1] # "remove" =>
             /\ queue' = {r \in queue : r.id # snapshot[1][idx[1]].id}
             /\ seq' = seq]_vars

\* the second change got id 2 although the row with id 1 was removed by
\* syncAll before it was queued
QueueIdsWitness ==
  /\ seq = 2
  /\ QueueIds = {2}
  /\ pc[1] = "done"
  /\ result[1].success = 1
  /\ snapshot[1][1].id = 1
  /\ disturbed[1]

\* ------------------------------------------------------ offline mutations
\* the hooks used while connectivity comes and goes, nothing being synced
NextCreate ==
  \/ \E hook \in Hooks : MutateOnline(hook)
  \/ \E hook \in Hooks : MutateOffline(hook, MaxCreates)
  \/ SetOnline

SpecCreate == InitWrite /\ [][NextCreate]_vars

\* the same with at most MaxWrites changes queued
NextOnline ==
  \/ \E hook \in Hooks : MutateOnline(hook)
  \/ \E hook \in Hooks : MutateOffline(hook, MaxWrites)
  \/ SetOnline

SpecOnline == InitWrite /\ [][NextOnline]_vars

\* the queue ids of the changes queued by the offline create hooks
OfflineCreates ==
  {i \in 1..seq : origin[i].hook \in {"useCreateBookmark", "useCreateNote"}}

\* C16 as claimed: locally-unique placeholder id. Every offline create
\* (bookmark or note) returns an entity whose id is a 'temp_'-prefixed
\* placeholder, and two distinct offline create calls return different
\* placeholder ids, also when they happen within the same millisecond.
PlaceholderIdsUnique ==
  \A i, j \in OfflineCreates :
    /\ origin[i].value[1].data.id[1] = "temp_"
    /\ i # j => origin[i].value[1].data.id # origin[j].value[1].data.id

\* the attempts of the run of slot s that threw, in attempt order
Failures(s) ==
  LET threw(a) == a.threw
  IN SelectSeq(attempts[s], threw)

\* C17: errors list. While syncAll runs and when it has returned, errors
\* holds exactly one string per failed entry, in attempt order, and its
\* length is failed; the string is the message of the thrown Error, or
\* 'Unknown error' when the thrown value is not an Error; the thrown value
\* itself is never in the list, and every throw ends in the catch block
\* (the loop goes on or syncAll returns its result).
ErrorsList ==
  /\ Len(result[1].errors) = result[1].failed
  /\ Len(result[1].errors) = Len(Failures(1))
  /\ \A i \in 1..Len(Failures(1)) :
       LET thrown == Failures(1)[i].thrown[1]
       IN /\ thrown.isError => result[1].errors[i] = thrown.text
          /\ ~thrown.isError =>
               /\ result[1].errors[i] = <<"Unknown error">>
               /\ result[1].errors[i] # thrown.text
  /\ \A i \in 1..Len(attempts[1]) :
       attempts[1][i].threw =>
         (pc[1] = "done" \/ idx[1] > i)

\* a returned run in which one call rejected with a string and one entry
\* was of an unknown type
ErrorsListWitness ==
  /\ pc[1] = "done"
  /\ result[1].failed = 2
  /\ \E i, j \in 1..2 :
       /\ result[1].errors[i] = <<"Unknown error">>
       /\ ~Failures(1)[i].thrown[1].isError
       /\ result[1].errors[j] = <<"Unknown sync type: ", "bogus">>

\* ------------------------------------------------------------- guide cache
\* DownloadManager.downloadGuide: offlineCache.saveGuide(response.data)
SaveGuide ==
  /\ \E guide \in GuideInputs :
       \E now \in DateNow :
         /\ guides' = saveGuide(guides, guide, now)
         /\ clock' = now
         /\ last' = [op |-> "saveGuide", arg |-> <<guide>>, ret |-> <<>>]
  /\ UNCHANGED <<queue, seq, isOnline, pc, snapshot, idx, result, attempts,
                 disturbed, replayed, fails, origin, db, schema, adds>>
  /\ mut' = NoMutation
  /\ UNCHANGED screen

\* DownloadManager.removeGuide: offlineCache.deleteGuide(guideId)
DeleteGuide ==
  /\ \E id \in GuideIds :
       /\ guides' = deleteGuide(guides, id)
       /\ last' = [op |-> "deleteGuide", arg |-> <<id>>, ret |-> <<>>]
  /\ UNCHANGED <<queue, seq, clock, isOnline, pc, snapshot, idx, result,
                 attempts, disturbed, replayed, fails, origin, db, schema,
                 adds>>
  /\ mut' = NoMutation
  /\ UNCHANGED screen

\* DownloadManager.removeAllGuides: offlineCache.deleteAllGuides()
DeleteAllGuides ==
  /\ guides' = deleteAllGuides(guides)
  /\ last' = [op |-> "deleteAllGuides", arg |-> <<>>, ret |-> <<>>]
  /\ UNCHANGED <<queue, seq, clock, isOnline, pc, snapshot, idx, result,
                 attempts, disturbed, replayed, fails, origin, db, schema,
                 adds>>
  /\ mut' = NoMutation
  /\ UNCHANGED screen

\* the guide cache on its own
NextCache ==
  \/ SaveGuide
  \/ DeleteGuide
  \/ DeleteAllGuides

SpecCache == Init /\ [][NextCache]_vars

\* the fields of a guide, an optional field that is absent or undefined
\* counting as null
GuideFields(g) ==
  [k \in {"id", "title", "content", "format", "file_path", "game_id",
          "last_read_position", "metadata", "created_at", "updated_at"} |->
     Coalesce(Get(g, k), Null)]

\* C18: upsert. The guide cache holds at most one row per guide id; after
\* saveGuide(g') getGuide(g'.id) returns the fields of g' and of nothing
\* else (an optional field g' does not have reads as null, whatever an
\* earlier save of the same id stored there), and a save of an id that is
\* cached leaves getDownloadedCount as it was.
UpsertReplaces ==
  /\ [](\A r1, r2 \in guides : r1.id = r2.id => r1 = r2)
  /\ [][last'.op = "saveGuide" =>
          LET g == last'.arg[1]
          IN /\ getGuide(guides', g.id) = <<GuideFields(g)>>
             /\ isGuideDownloaded(guides, g.id) =>
                  getDownloadedCount(guides') = getDownloadedCount(guides)
             /\ \A id \in GuideIds \ {g.id} :
                  getGuide(guides', id) = getGuide(guides, id)]_vars

\* the first version of g1 has just been saved over its second version,
\* which had the optional fields set, while g2 is cached
UpsertWitness ==
  /\ last.op = "saveGuide"
  /\ last.arg[1].title = "A"
  /\ getGuide(guides, "g1")[1].game_id = Null
  /\ getGuide(guides, "g1")[1].content = "a v1"
  /\ (CHOOSE r \in guides : r.id = "g1").downloaded_at = 3
  /\ getDownloadedCount(guides) = 2

\* the guide ids isGuideDownloaded answers true for
Downloaded(rows) == {id \in GuideIds : isGuideDownloaded(rows, id)}

\* C19: cache membership and count. saveGuide makes isGuideDownloaded true
\* for its id, deleteGuide makes it false for its id, neither changes it
\* for another id, and deleteAllGuides makes it false for every id (so it
\* is true exactly for the ids saved and not deleted since);
\* getDownloadedCount is the number of those ids, which is the length of
\* getDownloadedGuideIds and of getAllDownloadedGuides, and 0 once the
\* only guide was removed.
MembershipAndCount ==
  /\ [](/\ getDownloadedCount(guides) = Cardinality(Downloaded(guides))
        /\ \A s \in getDownloadedGuideIds(guides) :
             /\ Len(s) = getDownloadedCount(guides)
             /\ {s[i] : i \in 1..Len(s)} = Downloaded(guides)
        /\ \A s \in getAllDownloadedGuides(guides) :
             /\ Len(s) = getDownloadedCount(guides)
             /\ {s[i].id : i \in 1..Len(s)} = Downloaded(guides))
  /\ [][/\ last'.op = "saveGuide" =>
             Downloaded(guides') = Downloaded(guides) \cup {last'.arg[1].id}
        /\ last'.op = "deleteGuide" =>
             /\ Downloaded(guides') = Downloaded(guides) \ {last'.arg[1]}
             /\ Downloaded(guides) = {last'.arg[1]} =>
                  getDownloadedCount(guides') = 0
        /\ last'.op = "deleteAllGuides" =>
             /\ Downloaded(guides') = {}
             /\ getDownloadedCount(guides') = 0]_vars

\* g2 has just been removed from a cache that holds g1 and g3
MembershipWitness ==
  /\ last.op = "deleteGuide"
  /\ last.arg[1] = "g2"
  /\ ~isGuideDownloaded(guides, "g2")
  /\ Downloaded(guides) = {"g1", "g3"}
  /\ getDownloadedCount(guides) = 2
  /\ clock = 3

\* C20: cache ordering. getAllDownloadedGuides returns every cached guide
\* once, ordered by downloaded_at descending; saveGuide stamps its row with
\* the time of the save and leaves the stamps of the other rows alone; so
\* guides saved at pairwise different times come back in one order only,
\* the most recently saved first.
CacheOrdering ==
  /\ [](/\ \A s \in getAllDownloadedGuides(guides) :
             /\ {s[i] : i \in 1..Len(s)} = guides
             /\ Len(s) = Cardinality(guides)
             /\ \A i, j \in 1..Len(s) :
                  i < j => s[i].downloaded_at >= s[j].downloaded_at
        /\ getAllDownloadedGuides(guides) # {}
        /\ (\A r1, r2 \in guides :
              r1 # r2 => r1.downloaded_at # r2.downloaded_at) =>
             /\ Cardinality(getAllDownloadedGuides(guides)) = 1
             /\ \A s \in getAllDownloadedGuides(guides) :
                  \A i, j \in 1..Len(s) :
                    i < j => s[i].downloaded_at > s[j].downloaded_at)
  /\ [][last'.op = "saveGuide" =>
          /\ clock' >= clock
          /\ \A r \in guides' :
               IF r.id = last'.arg[1].id THEN r.downloaded_at = clock'
               ELSE r \in guides]_vars

\* three guides cached at times 1, 2 and 3, g1 saved again last: [t3, t2, t1]
CacheOrderingWitness ==
  /\ Cardinality(guides) = 3
  /\ \E s \in getAllDownloadedGuides(guides) :
       /\ s[1].id = "g1" /\ s[1].downloaded_at = 3
       /\ s[2].downloaded_at = 2
       /\ s[3].downloaded_at = 1

\* ------------------------------------------------------ payload round trip
MaxPayloadEnq == 2

\* payloads a caller may hand to addToSyncQueue: plain values, a null, and
\* the two values JSON cannot carry, undefined and NaN
PayloadInputs ==
  {[guideId |-> "g1", position |-> "100"],
   [guideId |-> "g1", name |-> Null],
   [guideId |-> "g1", name |-> Undef],
   [guideId |-> "g1", position |-> NaN]}

PayloadKinds == {<<"position", "update">>, <<"note", "create">>}

\* offlineCache.addToSyncQueue(type, action, payload) called on the open
\* connection; origin keeps the arguments of the call
EnqueuePayload ==
  /\ seq < MaxPayloadEnq
  /\ schema
  /\ \E kind \in PayloadKinds, payload \in PayloadInputs, now \in DateNow :
       /\ addToSyncQueue(kind[1], kind[2], payload, now)
       /\ clock' = now
       /\ origin' = [origin EXCEPT ![seq + 1] =
                       [hook |-> "none",
                        variables |-> <<[type |-> kind[1],
                                         action |-> kind[2],
                                         payload |-> payload]>>,
                        value |-> <<>>]]
       /\ last' = [op |-> "addToSyncQueue",
                   arg |-> <<[type |-> kind[1], action |-> kind[2],
                              payload |-> payload]>>,
                   ret |-> <<>>]
  /\ disturbed' = Disturb(0)
  /\ UNCHANGED <<guides, isOnline, pc, snapshot, idx, result, attempts,
                 replayed, fails, db, schema, adds>>
  /\ mut' = NoMutation
  /\ UNCHANGED screen

NextPayload ==
  \/ EnqueuePayload
  \/ GetSyncQueue

SpecPayload == Init /\ [][NextPayload]_vars

\* a payload JSON can carry: no property holds undefined or NaN
Serializable(payload) ==
  \A k \in DOMAIN payload : payload[k] \notin {Undef, NaN}

\* C21: every entry getSyncQueue returns carries the type and the action of
\* the addToSyncQueue call that wrote it, and, when the payload of that call
\* was serializable, a payload equal to it property by property
PayloadRoundTrip ==
  last.op = "getSyncQueue" =>
    \A i \in DOMAIN last.ret[1] :
       LET e == last.ret[1][i]
           o == origin[e.id].variables[1]
       IN /\ e.type = o.type
          /\ e.action = o.action
          /\ Serializable(o.payload) =>
               /\ DOMAIN e.payload = DOMAIN o.payload
               /\ \A k \in DOMAIN o.payload : e.payload[k] = o.payload[k]

\* a read returned two entries, one enqueued with a null in its payload and
\* one with plain values, each as it was enqueued
PayloadRoundTripWitness ==
  /\ last.op = "getSyncQueue"
  /\ Len(last.ret[1]) = 2
  /\ last.ret[1][1].payload = [guideId |-> "g1", name |-> Null]
  /\ origin[last.ret[1][1].id].variables[1].payload =
       [guideId |-> "g1", name |-> Null]
  /\ last.ret[1][2].payload = [guideId |-> "g1", position |-> "100"]
  /\ last.ret[1][2].type = "note"

\* ------------------------------------------------- lazy database opening
\* the offlineCache operations called at the start of a session:
\* initialize, and the two counts the Settings screen loads in parallel
SessionOps == {"initialize", "getDownloadedCount", "getSyncQueueCount"}

\* an operation is called and runs getDb up to its first await: with db
\* null it awaits openDatabaseAsync, otherwise getDb returns db
OpCall(n) ==
  /\ adds[n].pc = "idle"
  /\ \A m \in Adders : m < n => adds[m].pc # "idle"
  /\ \E op \in SessionOps :
       adds' = [adds EXCEPT ![n] =
                  [pc |-> IF db = 0 THEN "open" ELSE "insert",
                   op |-> op, item |-> <<>>, conn |-> db, id |-> 0,
                   at |-> 0, opened |-> FALSE]]
  /\ UNCHANGED <<queue, seq, clock, guides, isOnline, pc, snapshot, idx,
                 result, attempts, disturbed, replayed, fails, origin, db,
                 schema>>
  /\ mut' = NoMutation
  /\ last' = NoOperation
  /\ UNCHANGED screen

\* the operation resumes with the connection getDb returned: initialize
\* returns, the counts run their SELECT COUNT(*) after the statements
\* issued on the connection before
OpRun(n) ==
  /\ adds[n].pc = "insert"
  /\ adds[n].op \in SessionOps
  /\ adds[n].op # "initialize" => schema
  /\ adds' = [adds EXCEPT ![n].pc = "done"]
  /\ last' = [op |-> adds[n].op, arg |-> <<>>,
              ret |-> IF adds[n].op = "getDownloadedCount"
                        THEN <<getDownloadedCount(guides)>>
                      ELSE IF adds[n].op = "getSyncQueueCount"
                        THEN <<getSyncQueueCount(queue)>>
                      ELSE <<>>]
  /\ UNCHANGED <<queue, seq, clock, guides, isOnline, pc, snapshot, idx,
                 result, attempts, disturbed, replayed, fails, origin, db,
                 schema>>
  /\ mut' = NoMutation
  /\ UNCHANGED screen

\* the start of a session: db is null, and the database file is either the
\* one of a fresh install or holds the tables, a guide and a queued change
\* of an earlier session
InitSession ==
  /\ \/ /\ schema = FALSE
        /\ queue = {}
        /\ seq = 0
        /\ guides = {}
     \/ /\ schema = TRUE
        /\ queue = {[id |-> 1, type |-> "position", action |-> "update",
                     payload |-> JSONStringify([guideId |-> "g1",
                                                position |-> "100"]),
                     created_at |-> 1]}
        /\ seq = 1
        /\ guides = saveGuide({}, CHOOSE g \in GuideInputs : g.title = "A", 1)
  /\ clock = 1
  /\ isOnline = FALSE
  /\ pc = [s \in Syncers |-> "idle"]
  /\ snapshot = [s \in Syncers |-> <<>>]
  /\ idx = [s \in Syncers |-> 1]
  /\ result = [s \in Syncers |-> EmptyResult]
  /\ attempts = [s \in Syncers |-> <<>>]
  /\ disturbed = [s \in Syncers |-> FALSE]
  /\ replayed = <<>>
  /\ fails = 0
  /\ origin = [i \in 1..(MaxEnq + MaxWrites) |-> NoOrigin]
  /\ mut = NoMutation
  /\ db = 0
  /\ adds = [n \in Adders |-> NoAdd]
  /\ last = NoOperation
  /\ screen = NoScreen

\* concurrent calls of offlineCache operations from the start of a session
NextSession ==
  \/ \E n \in Adders : OpCall(n)
  \/ \E n \in Adders : AddCall(n)
  \/ \E n \in Adders : AddOpen(n)
  \/ \E n \in Adders : AddSchema(n)
  \/ \E n \in Adders : OpRun(n)
  \/ \E n \in Adders : AddInsert(n)

SpecSession == InitSession /\ [][NextSession]_vars

\* C22: no call of offlineCache.initialize fails, however many were made
\* before it; no step of an initialize call changes the queued changes, the
\* ids assigned or the cached guides, or takes the tables away; and an
\* initialize called when the database is open takes the connection as it
\* is, opening nothing and running no statement
InitializeIdempotent ==
  /\ [](\A n \in Adders : adds[n].pc # "failed")
  /\ [][\A n \in Adders :
          (adds'[n] # adds[n] /\ adds'[n].op = "initialize") =>
            /\ queue' = queue
            /\ guides' = guides
            /\ seq' = seq
            /\ schema => schema'
            /\ (adds[n].pc = "idle" /\ db # 0) =>
                 /\ adds'[n].pc = "insert"
                 /\ db' = db
                 /\ schema' = schema]_vars

\* initialize was called twice in a session whose file held a guide and a
\* queued change: the second call found the database open, both returned,
\* and the guide and the change are there
InitializeWitness ==
  /\ \A n \in 1..2 : adds[n].op = "initialize" /\ adds[n].pc = "done"
  /\ adds[1].opened
  /\ ~adds[2].opened
  /\ Cardinality(queue) = 1
  /\ Cardinality(guides) = 1

\* C30: getDb runs openDatabaseAsync at most once in a session, and a call
\* that has run its statement did so on tables that exist
LazyOpenOnce ==
  /\ Cardinality({n \in Adders : adds[n].opened}) <= 1
  /\ \A n \in Adders :
       (adds[n].pc = "done" /\ adds[n].op # "initialize") => schema

\* ---------------------------------------------------- deletes that miss
\* offlineCache.removeSyncQueueItem(id) called on its own, with the id of a
\* row, of a row removed before, or an id never assigned
RemoveItem(id) ==
  /\ schema
  /\ queue' = removeSyncQueueItem(queue, id)
  /\ disturbed' = Disturb(0)
  /\ last' = [op |-> "removeSyncQueueItem", arg |-> <<id>>, ret |-> <<>>]
  /\ UNCHANGED <<seq, clock, guides, isOnline, pc, snapshot, idx, result,
                 attempts, replayed, fails, origin, db, schema, adds>>
  /\ mut' = NoMutation
  /\ UNCHANGED screen

\* the ids a caller may pass: those assigned so far and the next one
RemovableIds == 1..(seq + 1)

\* enqueues, removals by id, clears and guide deletions in any order, on
\* tables that hold one guide at the start
NextDelete ==
  \/ \E n \in Adders : AddCall(n)
  \/ \E n \in Adders : AddInsert(n)
  \/ \E id \in RemovableIds : RemoveItem(id)
  \/ ClearQueue
  \/ DeleteGuide
  \/ DeleteAllGuides

SpecDelete == InitWrite /\ [][NextDelete]_vars

\* C23: removeSyncQueueItem, deleteGuide, clearSyncQueue and deleteAllGuides
\* can always complete, whatever the tables hold; removeSyncQueueItem never
\* touches the guides and deleteGuide never touches the queue; with an id
\* that is not there each leaves its own table as it was; and after either
\* one, the same call again would change nothing
DeletionIdempotent ==
  /\ [](/\ \A id \in RemovableIds : ENABLED RemoveItem(id)
        /\ ENABLED DeleteGuide
        /\ ENABLED ClearQueue
        /\ ENABLED DeleteAllGuides)
  /\ [][/\ last'.op = "removeSyncQueueItem" =>
            /\ guides' = guides
            /\ last'.arg[1] \notin QueueIds => queue' = queue
            /\ removeSyncQueueItem(queue', last'.arg[1]) = queue'
        /\ last'.op = "deleteGuide" =>
            /\ queue' = queue
            /\ ~isGuideDownloaded(guides, last'.arg[1]) => guides' = guides
            /\ deleteGuide(guides', last'.arg[1]) = guides'
        /\ last'.op = "deleteAllGuides" => queue' = queue /\ guides' = {}]_vars

\* after one entry was removed, a removal by an id never assigned has just
\* completed on a queue that holds the other entry, next to a cache that
\* holds a guide
DeletionWitness ==
  /\ last.op = "removeSyncQueueItem"
  /\ last.arg[1] = 3
  /\ seq = 2
  /\ QueueIds = {2}
  /\ Cardinality(guides) = 1

\* the same for the cache: deleteGuide of a guide that is not cached has
\* completed, and the cached guide and the queued change are there
DeletionGuideWitness ==
  /\ last.op = "deleteGuide"
  /\ last.arg[1] = "g2"
  /\ Cardinality(guides) = 1
  /\ queue # {}

\* ------------------------------------------------------- SettingsScreen
\* loadCounts run by the mount effect: SyncManager.getPendingCount() is
\* stored in pendingSyncCount
LoadCounts ==
  /\ screen.pendingSyncCount = <<>>
  /\ screen' = [screen EXCEPT
                  !.pendingSyncCount = <<getSyncQueueCount(queue)>>]
  /\ UNCHANGED <<queue, seq, clock, guides, isOnline, pc, snapshot, idx,
                 result, attempts, disturbed, replayed, fails, origin, db,
                 schema, adds>>
  /\ mut' = NoMutation
  /\ last' = NoOperation

\* the button "Sync Pending Changes" is rendered when pendingSyncCount is a
\* positive number, and takes a press unless disabled={isSyncing || !isOnline}
ButtonEnabled ==
  /\ screen.pendingSyncCount # <<>>
  /\ screen.pendingSyncCount[1] > 0
  /\ ~(screen.isSyncing \/ ~isOnline)

\* a handler that calls syncAll without setIsSyncing(true)
HandleSyncNow_NoFlag(s) ==
  /\ ButtonEnabled
  /\ screen.handler[s] = "idle"
  /\ \A t \in Syncers : t < s => screen.handler[t] # "idle"
  /\ screen' = [screen EXCEPT !.handler[s] = "syncAll"]
  /\ pc' = [pc EXCEPT ![s] = "idle"]
  /\ UNCHANGED <<queue, seq, clock, guides, isOnline, snapshot, idx, result,
                 attempts, disturbed, replayed, fails, origin, db, schema,
                 adds>>
  /\ mut' = NoMutation
  /\ last' = NoOperation

\* a press of the button runs handleSyncNow up to its first await: the
\* offline alert and return, or setIsSyncing(true) and the call of syncAll
\* (the state update is rendered before the next press is delivered)
HandleSyncNow(s) ==
  /\ ButtonEnabled
  /\ screen.handler[s] = "idle"
  /\ \A t \in Syncers : t < s => screen.handler[t] # "idle"
  /\ IF ~isOnline
       THEN UNCHANGED <<screen, pc>>
       ELSE /\ screen' = [screen EXCEPT !.isSyncing = TRUE,
                                        !.handler[s] = "syncAll"]
            /\ pc' = [pc EXCEPT ![s] = "idle"]
  /\ UNCHANGED <<queue, seq, clock, guides, isOnline, snapshot, idx, result,
                 attempts, disturbed, replayed, fails, origin, db, schema,
                 adds>>
  /\ mut' = NoMutation
  /\ last' = NoOperation

\* the syncAll called by the handler drains the queue
SyncStartBy(s) ==
  /\ screen.handler[s] = "syncAll"
  /\ pc[s] = "idle"
  /\ SyncStart(s)

\* syncAll resolved: the handler goes on to await loadCounts()
HandleSynced(s) ==
  /\ screen.handler[s] = "syncAll"
  /\ pc[s] = "done"
  /\ screen' = [screen EXCEPT !.handler[s] = "loadCounts"]
  /\ UNCHANGED <<queue, seq, clock, guides, isOnline, pc, snapshot, idx,
                 result, attempts, disturbed, replayed, fails, origin, db,
                 schema, adds>>
  /\ mut' = NoMutation
  /\ last' = NoOperation

\* loadCounts resolved, the alert is shown, finally: setIsSyncing(false)
HandleFinally(s) ==
  /\ screen.handler[s] = "loadCounts"
  /\ screen' = [screen EXCEPT
                  !.pendingSyncCount = <<getSyncQueueCount(queue)>>,
                  !.isSyncing = FALSE,
                  !.handler[s] = "idle"]
  /\ UNCHANGED <<queue, seq, clock, guides, isOnline, pc, snapshot, idx,
                 result, attempts, disturbed, replayed, fails, origin, db,
                 schema, adds>>
  /\ mut' = NoMutation
  /\ last' = NoOperation

\* syncAll rejected (its getSyncQueue is outside the try of the loop): the
\* catch shows "Sync Failed", finally: setIsSyncing(false)
HandleSyncFailed(s) ==
  /\ screen.handler[s] = "syncAll"
  /\ pc[s] = "idle"
  /\ screen' = [screen EXCEPT !.isSyncing = FALSE, !.handler[s] = "idle"]
  /\ pc' = [pc EXCEPT ![s] = "done"]
  /\ UNCHANGED <<queue, seq, clock, guides, isOnline, snapshot, idx, result,
                 attempts, disturbed, replayed, fails, origin, db, schema,
                 adds>>
  /\ mut' = NoMutation
  /\ last' = NoOperation

MaxScreenEnq == 1

\* the Settings screen over a queue that holds two changes, with further
\* changes queued and the connectivity changing at any time
NextScreen ==
  \/ LoadCounts
  \/ SetOnline
  \/ QueueChange(2 + MaxScreenEnq)
  \/ \E s \in Syncers : HandleSyncNow(s)
  \/ \E s \in Syncers : SyncStartBy(s)
  \/ \E s \in Syncers : DispatchOk(s)
  \/ \E s \in Syncers : DispatchFail(s)
  \/ \E s \in Syncers : DispatchNone(s)
  \/ \E s \in Syncers : DispatchThrow(s)
  \/ \E s \in Syncers : Remove(s)
  \/ \E s \in Syncers : HandleSynced(s)
  \/ \E s \in Syncers : HandleFinally(s)
  \/ \E s \in Syncers : HandleSyncFailed(s)

SpecScreen == InitOverlap /\ [][NextScreen]_vars

\* C24: isSyncing is true as long as a handleSyncNow call has not finished
\* and false when none is running; at most one syncAll called by the
\* handler is in flight; and the handler calls syncAll only when isOnline
\* is true and no earlier call of it is running
SyncAllSerialized ==
  /\ [](\A s \in Syncers : screen.handler[s] # "idle" => screen.isSyncing)
  /\ []((\A s \in Syncers : screen.handler[s] = "idle") =>
          ~screen.isSyncing)
  /\ [](Cardinality({s \in Syncers : screen.handler[s] = "syncAll"}) <= 1)
  /\ [][\A s \in Syncers :
          (screen.handler[s] = "idle" /\ screen'.handler[s] = "syncAll") =>
            /\ isOnline
            /\ \A t \in Syncers : screen.handler[t] = "idle"]_vars

\* a second press has called syncAll after the run of the first press,
\* which left a failed change in the queue, had finished
SyncAllSerializedWitness ==
  /\ screen.handler[1] = "syncAll"
  /\ pc[1] = "idle"
  /\ screen.isSyncing
  /\ fails = 1
  /\ Len(replayed) = 2
  /\ screen.pendingSyncCount = <<1>>

\* ------------------------------------------------------------ guide reader
\* what guidesApi.getById(id) may settle with: a response carrying a
\* version of the guide, or a rejection
RemoteOutcomes(id) ==
  {[ok |-> TRUE, data |-> <<g>>, thrown |-> <<>>] :
     g \in {h \in GuideInputs : h.id = id}} \cup
  {[ok |-> FALSE, data |-> <<>>, thrown |-> <<t>>] : t \in Thrown}

NotAvailableOffline ==
  [isError |-> TRUE, text |-> <<"Guide not available offline">>]

\* a reader that looks into the cache before it asks the remote API
queryFn_CacheFirst(online, id, remote, rows) ==
  LET cached == getGuide(rows, id)
  IN IF cached # <<>>
       THEN [consulted |-> <<"offlineCache.getGuide">>, data |-> cached,
             thrown |-> <<>>]
     ELSE IF online /\ remote.ok
       THEN [consulted |-> <<"offlineCache.getGuide", "guidesApi.getById">>,
             data |-> remote.data, thrown |-> <<>>]
     ELSE [consulted |-> <<"offlineCache.getGuide">>, data |-> <<>>,
           thrown |-> <<NotAvailableOffline>>]

\* useGuide queryFn: what it consulted, and the data it resolved with or
\* the value it threw
queryFn(online, id, remote, rows) ==
  IF online
    THEN IF remote.ok
           THEN [consulted |-> <<"guidesApi.getById">>,
                 data |-> remote.data, thrown |-> <<>>]
         ELSE LET cached == getGuide(rows, id)
              IN IF cached # <<>>
                   THEN [consulted |-> <<"guidesApi.getById",
                                         "offlineCache.getGuide">>,
                         data |-> cached, thrown |-> <<>>]
                 ELSE [consulted |-> <<"guidesApi.getById",
                                       "offlineCache.getGuide">>,
                       data |-> <<>>, thrown |-> remote.thrown]
  ELSE LET cached == getGuide(rows, id)
       IN IF cached # <<>>
            THEN [consulted |-> <<"offlineCache.getGuide">>,
                  data |-> cached, thrown |-> <<>>]
          ELSE [consulted |-> <<"offlineCache.getGuide">>, data |-> <<>>,
                thrown |-> <<NotAvailableOffline>>]

\* the reader screen runs the query for a guide id
ReadGuide ==
  /\ \E id \in GuideIds :
       \E remote \in RemoteOutcomes(id) :
         last' = [op |-> "useGuide", arg |-> <<id, isOnline, remote>>,
                  ret |-> <<queryFn(isOnline, id, remote, guides)>>]
  /\ UNCHANGED <<queue, seq, clock, guides, isOnline, pc, snapshot, idx,
                 result, attempts, disturbed, replayed, fails, origin, db,
                 schema, adds, screen>>
  /\ mut' = NoMutation

\* downloads, removals, connectivity changes and reads of guides
NextReader ==
  \/ SaveGuide
  \/ DeleteGuide
  \/ SetOnline
  \/ ReadGuide

SpecReader == Init /\ [][NextReader]_vars

\* the data is the cached row of id: its columns other than downloaded_at
IsCachedGuide(data, id) ==
  /\ data # <<>>
  /\ \E r \in guides :
       /\ r.id = id
       /\ DOMAIN data[1] = (DOMAIN r) \ {"downloaded_at"}
       /\ \A k \in DOMAIN data[1] : data[1][k] = r[k]

\* C25: online with a fetch that succeeds, the reader returns the fetched
\* guide and has consulted the remote API only; online with a fetch that
\* fails, it asked the API first and returns the cached guide if there is
\* one and throws the error of the fetch otherwise; offline it has not
\* consulted the API and returns the cached guide or throws
\* "Guide not available offline"
GuideReadPath ==
  last.op = "useGuide" =>
    LET id == last.arg[1]
        online == last.arg[2]
        remote == last.arg[3]
        ret == last.ret[1]
        cached == isGuideDownloaded(guides, id)
    IN /\ (online /\ remote.ok) =>
            /\ ret.consulted = <<"guidesApi.getById">>
            /\ ret.data = remote.data
            /\ ret.thrown = <<>>
       /\ (online /\ ~remote.ok) => ret.consulted[1] = "guidesApi.getById"
       /\ (online /\ ~remote.ok /\ cached) =>
            /\ IsCachedGuide(ret.data, id)
            /\ ret.thrown = <<>>
       /\ (online /\ ~remote.ok /\ ~cached) =>
            /\ ret.data = <<>>
            /\ ret.thrown = remote.thrown
       /\ ~online =>
            \A i \in DOMAIN ret.consulted :
               ret.consulted[i] # "guidesApi.getById"
       /\ (~online /\ cached) =>
            /\ IsCachedGuide(ret.data, id)
            /\ ret.thrown = <<>>
       /\ (~online /\ ~cached) =>
            /\ ret.data = <<>>
            /\ ret.thrown = <<NotAvailableOffline>>

\* online, the fetch of a cached guide succeeded with a newer version than
\* the cached one, and the reader returned the fetched version
GuideReadWitness ==
  /\ last.op = "useGuide"
  /\ last.arg[2]
  /\ last.arg[3].ok
  /\ isGuideDownloaded(guides, last.arg[1])
  /\ ~IsCachedGuide(last.ret[1].data, last.arg[1])
  /\ last.ret[1].data = last.arg[3].data

\* online, the fetch failed and the reader returned the cached guide
GuideReadFallbackWitness ==
  /\ last.op = "useGuide"
  /\ last.arg[2]
  /\ ~last.arg[3].ok
  /\ IsCachedGuide(last.ret[1].data, last.arg[1])

\* --------------------------------------------------------- downloadGuide
\* a catch block that reports the text of whatever was thrown
errorMessage_Raw(thrown) == thrown.text

\* error instanceof Error ? error.message : 'Download failed'
errorMessage(thrown) ==
  IF thrown.isError THEN thrown.text ELSE <<"Download failed">>

\* one onProgress report
Progress(status, error) == [status |-> status, error |-> error]

\* a downloadGuide call is running when last holds it unsettled
Downloading ==
  /\ last.op = "downloadGuide"
  /\ last.ret[1].pc \in {"fetch", "save"}

\* downloadGuide(guideId, onProgress) up to its first await: onProgress
\* reports 'downloading' and guidesApi.getById is called; cache keeps the
\* rows the cache held at the call
DownloadCall ==
  /\ ~Downloading
  /\ \E id \in GuideIds :
       last' = [op |-> "downloadGuide", arg |-> <<id>>,
                ret |-> <<[pc |-> "fetch",
                           progress |-> <<Progress("downloading", <<>>)>>,
                           fetched |-> <<>>, saveCalled |-> FALSE,
                           caught |-> <<>>, thrown |-> <<>>,
                           cache |-> guides]>>]
  /\ UNCHANGED <<queue, seq, clock, guides, isOnline, pc, snapshot, idx,
                 result, attempts, disturbed, replayed, fails, origin, db,
                 schema, adds, screen>>
  /\ mut' = NoMutation

\* guidesApi.getById resolved: offlineCache.saveGuide(response.data) is
\* called
DownloadFetched ==
  /\ Downloading
  /\ last.ret[1].pc = "fetch"
  /\ \E g \in {h \in GuideInputs : h.id = last.arg[1]} :
       last' = [last EXCEPT !.ret[1].pc = "save",
                            !.ret[1].fetched = <<g>>,
                            !.ret[1].saveCalled = TRUE]
  /\ UNCHANGED <<queue, seq, clock, guides, isOnline, pc, snapshot, idx,
                 result, attempts, disturbed, replayed, fails, origin, db,
                 schema, adds, screen>>
  /\ mut' = NoMutation

\* guidesApi.getById rejected: the catch reports 'error' and rethrows
DownloadFetchFailed ==
  /\ Downloading
  /\ last.ret[1].pc = "fetch"
  /\ \E t \in Thrown :
       last' = [last EXCEPT
                  !.ret[1].pc = "rejected",
                  !.ret[1].progress =
                     Append(@, Progress("error", errorMessage(t))),
                  !.ret[1].caught = <<t>>,
                  !.ret[1].thrown = <<t>>]
  /\ UNCHANGED <<queue, seq, clock, guides, isOnline, pc, snapshot, idx,
                 result, attempts, disturbed, replayed, fails, origin, db,
                 schema, adds, screen>>
  /\ mut' = NoMutation

\* saveGuide resolved: onProgress reports 'complete' and the call resolves
DownloadSaved ==
  /\ Downloading
  /\ last.ret[1].pc = "save"
  /\ \E now \in DateNow :
       /\ guides' = saveGuide(guides, last.ret[1].fetched[1], now)
       /\ clock' = now
  /\ last' = [last EXCEPT
                 !.ret[1].pc = "resolved",
                 !.ret[1].progress = Append(@, Progress("complete", <<>>))]
  /\ UNCHANGED <<queue, seq, isOnline, pc, snapshot, idx, result, attempts,
                 disturbed, replayed, fails, origin, db, schema, adds,
                 screen>>
  /\ mut' = NoMutation

\* saveGuide rejected, its INSERT not done: the catch reports 'error' and
\* rethrows
DownloadSaveFailed ==
  /\ Downloading
  /\ last.ret[1].pc = "save"
  /\ \E t \in Thrown :
       last' = [last EXCEPT
                  !.ret[1].pc = "rejected",
                  !.ret[1].progress =
                     Append(@, Progress("error", errorMessage(t))),
                  !.ret[1].caught = <<t>>,
                  !.ret[1].thrown = <<t>>]
  /\ UNCHANGED <<queue, seq, clock, guides, isOnline, pc, snapshot, idx,
                 result, attempts, disturbed, replayed, fails, origin, db,
                 schema, adds, screen>>
  /\ mut' = NoMutation

\* downloads one after the other
NextDownload ==
  \/ DownloadCall
  \/ DownloadFetched
  \/ DownloadFetchFailed
  \/ DownloadSaved
  \/ DownloadSaveFailed

SpecDownload == Init /\ [][NextDownload]_vars

\* C26: the first report of a downloadGuide call is 'downloading'; a running
\* call has reported nothing else and a settled call exactly one more
\* status; 'complete' is reported by a call that resolved after the fetch
\* succeeded and saveGuide stored the fetched guide; 'error' is reported
\* with the message of the Error caught, or 'Download failed' for another
\* value, by a call that rejected with the value caught; saveGuide is called
\* only after a fetch that succeeded; and a call that rejected has left the
\* cache as it was at the call
DownloadProtocol ==
  last.op = "downloadGuide" =>
    LET r == last.ret[1]
        P == r.progress
    IN /\ P[1] = Progress("downloading", <<>>)
       /\ Len(P) = IF r.pc \in {"resolved", "rejected"} THEN 2 ELSE 1
       /\ r.pc = "resolved" =>
            /\ P[2] = Progress("complete", <<>>)
            /\ r.fetched # <<>>
            /\ r.saveCalled
            /\ r.thrown = <<>>
            /\ \E row \in guides :
                 /\ row.id = last.arg[1]
                 /\ row.title = r.fetched[1].title
       /\ r.pc = "rejected" =>
            /\ P[2].status = "error"
            /\ r.caught # <<>>
            /\ P[2].error = IF r.caught[1].isError THEN r.caught[1].text
                             ELSE <<"Download failed">>
            /\ r.thrown = r.caught
            /\ guides = r.cache
       /\ r.saveCalled => r.fetched # <<>>

\* a download of a cached guide failed at the fetch with a value that is
\* not an Error: 'downloading' then 'error' with "Download failed" were
\* reported, saveGuide was not called and the cached guide is there
DownloadWitness ==
  /\ last.op = "downloadGuide"
  /\ last.ret[1].pc = "rejected"
  /\ ~last.ret[1].saveCalled
  /\ ~last.ret[1].caught[1].isError
  /\ last.ret[1].progress[2] = Progress("error", <<"Download failed">>)
  /\ isGuideDownloaded(guides, last.arg[1])

\* a download resolved after 'downloading' and 'complete'
DownloadCompleteWitness ==
  /\ last.op = "downloadGuide"
  /\ last.ret[1].pc = "resolved"
  /\ Len(last.ret[1].progress) = 2

\* ------------------------------------------------ a removal that rejects
\* await offlineCache.removeSyncQueueItem(item.id) rejects (the DELETE did
\* not run): the catch of the loop counts the entry as failed and pushes
\* the message; fails counts these rejections too
RemoveFail(s) ==
  /\ pc[s] = "remove"
  /\ fails < MaxFail
  /\ fails' = fails + 1
  /\ \E t \in Thrown :
       /\ result' = [result EXCEPT ![s] = catchError(@, t)]
       /\ attempts' = [attempts EXCEPT ![s][Len(attempts[s])] =
                         [id |-> snapshot[s][idx[s]].id, threw |-> TRUE,
                          thrown |-> <<t>>]]
  /\ Advance(s)
  /\ UNCHANGED <<queue, seq, clock, guides, isOnline, snapshot, disturbed,
                 replayed, origin, db, schema, adds, screen>>
  /\ mut' = NoMutation
  /\ last' = NoOperation

\* serialized syncAll runs over a store whose DELETE may be rejected
NextStorage ==
  \/ \E n \in Adders : AddCall(n)
  \/ \E n \in Adders : AddInsert(n)
  \/ SyncStart(1)
  \/ DispatchOk(1)
  \/ Remove(1)
  \/ RemoveFail(1)

SpecStorage == Init /\ [][NextStorage]_vars

\* C27: no entry is dispatched with success more than once, and no run
\* counts as failed an entry whose dispatch has succeeded
NoDoubleDelivery ==
  /\ \A id \in 1..seq :
       Cardinality({i \in CallsFor(id) : replayed[i].ok}) <= 1
  /\ \A i \in DOMAIN attempts[1] :
       attempts[1][i].threw => attempts[1][i].id \notin Synced

\* ------------------------------------------- enqueues racing with syncAll
MaxRaceEnq == 1

\* two syncAll invocations that may overlap, over a queue that holds a
\* change, with changes queued, the queue read and cleared at any time
NextRace ==
  \/ QueueChange(1 + MaxRaceEnq)
  \/ GetSyncQueue
  \/ ClearQueue
  \/ \E s \in Syncers : SyncStart(s)
  \/ \E s \in Syncers : DispatchOk(s)
  \/ \E s \in Syncers : DispatchNone(s)
  \/ \E s \in Syncers : DispatchThrow(s)
  \/ \E s \in Syncers : Remove(s)

\* one change was queued before any syncAll was invoked
InitRace ==
  /\ queue = {[id |-> 1, type |-> "position", action |-> "update",
               payload |-> JSONStringify([guideId |-> "g1",
                                          position |-> "100"]),
               created_at |-> 1]}
  /\ seq = 1
  /\ clock = 1
  /\ guides = {}
  /\ isOnline = TRUE
  /\ pc = [s \in Syncers |-> "idle"]
  /\ snapshot = [s \in Syncers |-> <<>>]
  /\ idx = [s \in Syncers |-> 1]
  /\ result = [s \in Syncers |-> EmptyResult]
  /\ attempts = [s \in Syncers |-> <<>>]
  /\ disturbed = [s \in Syncers |-> FALSE]
  /\ replayed = <<>>
  /\ fails = 0
  /\ origin = [i \in 1..(MaxEnq + MaxWrites) |-> NoOrigin]
  /\ mut = NoMutation
  /\ db = 1
  /\ schema = TRUE
  /\ adds = [n \in Adders |-> NoAdd]
  /\ last = NoOperation
  /\ screen = NoScreen

SpecRace == InitRace /\ [][NextRace]_vars

\* the ids of the entries a run drained
SnapshotIds(s) == {snapshot[s][i].id : i \in DOMAIN snapshot[s]}

\* a run dispatches entries of its own snapshot only, and an entry leaves
\* the queue only in a step that clears the queue or in the removal a run
\* makes for that entry right after processQueueItem resolved for it
RemovedOnlyAfterResolve ==
  /\ [](\A s \in Syncers :
          \A i \in DOMAIN attempts[s] : attempts[s][i].id \in SnapshotIds(s))
  /\ [][\A r \in queue :
          r \notin queue' =>
            \/ queue' = {} /\ pc' = pc
            \/ \E s \in Syncers :
                 /\ pc[s] = "remove"
                 /\ pc'[s] # "remove"
                 /\ snapshot[s][idx[s]].id = r.id
                 /\ attempts[s][Len(attempts[s])] =
                      [id |-> r.id, threw |-> FALSE, thrown |-> <<>>]]_vars

\* C28: an entry leaves the queue only in a step that clears the queue or
\* after a remote call made for it has succeeded; and a run dispatches
\* entries of its own snapshot only, so an entry enqueued after the drain is
\* neither dispatched nor removed by the run
NoLostChange ==
  /\ [](\A s \in Syncers :
          \A i \in DOMAIN attempts[s] : attempts[s][i].id \in SnapshotIds(s))
  /\ [][\A r \in queue :
          r \notin queue' =>
            \/ queue' = {} /\ pc' = pc
            \/ r.id \in Synced]_vars

\* --------------------------------------------------- clear during a run
\* C29: with serialized syncAll runs, every remote call is made for an
\* entry that is in the queue: an entry the queue held before a clearQueue
\* is not dispatched after the clear
ClearIsFinal ==
  [][Len(replayed') > Len(replayed) =>
       replayed'[Len(replayed')].id \in QueueIds]_vars

====
